----------------------------- MODULE ClientProofs -----------------------------
(***************************************************************************)
(* What is proved of the client library, for any number of calls,          *)
(* processes and registrations, and whatever the daemon and the bus do.    *)
(*                                                                         *)
(* ClientSession: SessionAlways holds whatever ends.  As long as the       *)
(* daemon stays, SessionOrderly holds besides: the connection, the proxies,*)
(* the calls, the registrations, the answers that may come and the reports *)
(* that were made keep the order in which the code goes through them.      *)
(* ProcessOrderly needs that no call is refused, too.                      *)
(*                                                                         *)
(* ClientService: the path of its proxy is fixed until the connection goes *)
(* (ServiceWorld); until then (Broken) the methods that were asked for are *)
(* in the order of the calls that are not answered (InOrder).              *)
(***************************************************************************)
EXTENDS ClientSession, ClientService, SeqLemmas, FiniteSetTheorems

-----------------------------------------------------------------------------
\* What the operators of the proxy make of a world

IsWorld(w) ==
  /\ {"manager", "proxy", "call"} \subseteq DOMAIN w
  /\ w.manager \in ManagerType
  /\ w.proxy \in [Proxy -> ProxyType]
  /\ w.call \in [Call -> CallType]
  /\ \A c \in Call : (w.call[c].state = "sent") = (w.call[c].answers # {})
  /\ w.proxy[Main].status # "none"

\* What an object adds to the world is left alone.
Same(w, v) ==
  /\ DOMAIN v = DOMAIN w
  /\ \A f \in DOMAIN w \ {"manager", "proxy", "call"} : v[f] = w[f]

\* Every call that was sent has another answer than what the object gives.
Late(w) ==
  \A c \in Own : w.call[c].state = "sent" => w.call[c].answers \ {"success", "error"} # {}

\* Nothing is made or taken away.
Kept(w, v) ==
  /\ IsWorld(v) /\ Same(w, v)
  /\ \A p \in Proxy :
       /\ (v.proxy[p].status = "none") = (w.proxy[p].status = "none")
       /\ v.proxy[p].path = w.proxy[p].path
  /\ \A c \in Call : (v.call[c].state = "none") = (w.call[c].state = "none")
  /\ w.proxy[Main].path = "dead" /\ Late(w) => Late(v)

LEMMA ProxyOfCall ==
  /\ \A c \in Call : ProxyOf(c) \in Proxy
  /\ \A c \in Own : ProxyOf(c) = Main /\ c \in Call /\ c \notin Reg
  /\ \A r \in Reg : ProxyOf(r) = r /\ r # Main /\ r \in Call /\ r \in Proxy
  /\ Main \in Proxy
BY ProxyAssumption DEF ProxyOf, Call, Proxy

LEMMA SentCall ==
  ASSUME NEW w, NEW p
  PROVE  /\ Sent(w, p) \in CallType
         /\ Sent(w, p).state = "sent" /\ Sent(w, p).answers # {}
         /\ Sent(w, p).tried /\ ~Sent(w, p).destroyed
         /\ Sent(w, p).answers =
              IF ~Connected(w) THEN {"Disconnected"}
              ELSE IF w.proxy[p].path = "dead" THEN {"UnknownObject"} ELSE {"success", "error"}
<1> DEFINE a == IF ~Connected(w) THEN {"Disconnected"}
                ELSE IF w.proxy[p].path = "dead" THEN {"UnknownObject"}
                ELSE {"success", "error"}
<1>1. Sent(w, p) = [state |-> "sent", tried |-> TRUE, destroyed |-> FALSE, answers |-> a]
  BY DEF Sent
<1>2. a \in SUBSET Answer /\ a # {}
  BY DEF Answer
<1> HIDE DEF a
<1>3. QED
  BY <1>1, <1>2 DEF CallType, a

\* update() of the proxies P
LEMMA UpdateEffect ==
  ASSUME NEW w, IsWorld(w), NEW P \in SUBSET Proxy
  PROVE  LET v == Update(w, P) IN
         /\ IsWorld(v) /\ Same(w, v) /\ v.manager = w.manager
         /\ \A p \in Proxy :
              /\ v.proxy[p].connected = w.proxy[p].connected
              /\ v.proxy[p].path = w.proxy[p].path
              /\ v.proxy[p].status = IF p \in P THEN Status(w, p) ELSE w.proxy[p].status
         /\ \A c \in Call : v.call[c] = Updated(w, P, c)
<1> DEFINE v == Update(w, P)
<1>1. \A c \in Call :
        /\ Updated(w, P, c) \in CallType
        /\ (Updated(w, P, c).state = "sent") = (Updated(w, P, c).answers # {})
  <2> SUFFICES ASSUME NEW c \in Call
               PROVE  /\ Updated(w, P, c) \in CallType
                      /\ (Updated(w, P, c).state = "sent") = (Updated(w, P, c).answers # {})
    OBVIOUS
  <2> DEFINE p == ProxyOf(c)
             r == w.call[c]
  <2>1. r \in CallType /\ (r.state = "sent") = (r.answers # {})
    BY DEF IsWorld
  <2>2. /\ [r EXCEPT !.destroyed = TRUE] \in CallType
        /\ [r EXCEPT !.destroyed = TRUE].state = r.state
        /\ [r EXCEPT !.destroyed = TRUE].answers = r.answers
    BY <2>1 DEF CallType
  <2>3. Updated(w, P, c) \in {r, Sent(w, p), [r EXCEPT !.destroyed = TRUE]}
    BY DEF Updated
  <2>4. CASE Updated(w, P, c) = Sent(w, p)
    BY <2>4, SentCall
  <2> HIDE DEF p, r
  <2>5. QED
    BY <2>1, <2>2, <2>3, <2>4
<1>2. \A p \in Proxy : Status(w, p) \in {"Incomplete", "Ready", "Invalid"}
  BY DEF Status
<1>3. /\ DOMAIN v = DOMAIN w /\ v.manager = w.manager
      /\ v.call = [c \in Call |-> Updated(w, P, c)]
      /\ v.proxy = [p \in Proxy |-> IF p \in P
                       THEN [w.proxy[p] EXCEPT !.status = Status(w, p)] ELSE w.proxy[p]]
      /\ Same(w, v)
  BY DEF Update, IsWorld, Same
<1> HIDE DEF v
<1>4. \A p \in Proxy :
        /\ v.proxy[p] \in ProxyType
        /\ v.proxy[p].connected = w.proxy[p].connected
        /\ v.proxy[p].path = w.proxy[p].path
        /\ v.proxy[p].status = IF p \in P THEN Status(w, p) ELSE w.proxy[p].status
  BY <1>2, <1>3 DEF IsWorld, ProxyType
<1>5. IsWorld(v)
  BY <1>1, <1>2, <1>3, <1>4, ProxyOfCall DEF IsWorld
<1>6. QED
  BY <1>3, <1>4, <1>5 DEF v

LEMMA UpdateKeeps ==
  ASSUME NEW w, IsWorld(w), NEW P \in SUBSET Existing(w)
  PROVE  Kept(w, Update(w, P))
<1> DEFINE v == Update(w, P)
<1>1. P \in SUBSET Proxy /\ \A p \in P : w.proxy[p].status # "none"
  BY DEF Existing
<1>2. /\ IsWorld(v) /\ Same(w, v)
      /\ \A p \in Proxy :
           /\ v.proxy[p].path = w.proxy[p].path
           /\ v.proxy[p].status = IF p \in P THEN Status(w, p) ELSE w.proxy[p].status
      /\ \A c \in Call : v.call[c] = Updated(w, P, c)
  BY <1>1, UpdateEffect
<1> HIDE DEF v
<1>3. \A p \in Proxy : (v.proxy[p].status = "none") = (w.proxy[p].status = "none")
  BY <1>1, <1>2 DEF Status
<1>4. ASSUME NEW c \in Call
      PROVE  /\ (v.call[c].state = "none") = (w.call[c].state = "none")
             /\ \/ v.call[c] = Sent(w, ProxyOf(c))
                \/ v.call[c].state = w.call[c].state /\ v.call[c].answers = w.call[c].answers
  <2>1. w.call[c] \in CallType
    BY DEF IsWorld
  <2>2. v.call[c] = Updated(w, P, c)
    BY <1>2
  <2>3. QED
    BY <2>1, <2>2, SentCall DEF Updated, CallType
<1>5. ASSUME w.proxy[Main].path = "dead", Late(w)
      PROVE  Late(v)
  <2> SUFFICES ASSUME NEW c \in Own, v.call[c].state = "sent"
               PROVE  v.call[c].answers \ {"success", "error"} # {}
    BY DEF Late
  <2>1. c \in Call /\ ProxyOf(c) = Main
    BY ProxyOfCall
  <2>2. CASE v.call[c] = Sent(w, Main)
    <3>1. v.call[c].answers \in {{"Disconnected"}, {"UnknownObject"}}
      BY <1>5, <2>2, SentCall
    <3>2. QED
      BY <3>1
  <2>3. CASE v.call[c].state = w.call[c].state /\ v.call[c].answers = w.call[c].answers
    BY <1>5, <2>3 DEF Late
  <2>4. QED
    BY <1>4, <2>1, <2>2, <2>3
<1>6. QED
  BY <1>2, <1>3, <1>4, <1>5 DEF Kept, v

LEMMA KeptTransitive ==
  ASSUME NEW u, NEW v, NEW w, Kept(u, v), Kept(v, w)
  PROVE  Kept(u, w)
<1>1. Same(u, w)
  BY DEF Kept, Same
<1>2. w.proxy[Main].path = v.proxy[Main].path /\ v.proxy[Main].path = u.proxy[Main].path
  BY ProxyOfCall DEF Kept
<1>3. QED
  BY <1>1, <1>2 DEF Kept

\* The connection of every proxy, as a signal sets it
LEMMA SetConnected ==
  ASSUME NEW w, IsWorld(w), NEW b \in BOOLEAN
  PROVE  LET P == Existing(w)
             v == [w EXCEPT !.proxy = [p \in Proxy |->
                     IF p \in P THEN [@[p] EXCEPT !.connected = b] ELSE @[p]]]
         IN /\ IsWorld(v) /\ Same(w, v) /\ Kept(w, v)
            /\ v.manager = w.manager /\ v.call = w.call
            /\ \A p \in Proxy :
                 /\ v.proxy[p].connected =
                      IF w.proxy[p].status # "none" THEN b ELSE w.proxy[p].connected
                 /\ v.proxy[p].path = w.proxy[p].path
                 /\ v.proxy[p].status = w.proxy[p].status
<1> DEFINE P == Existing(w)
           v == [w EXCEPT !.proxy = [p \in Proxy |->
                   IF p \in P THEN [@[p] EXCEPT !.connected = b] ELSE @[p]]]
<1>1. /\ DOMAIN v = DOMAIN w /\ v.manager = w.manager /\ v.call = w.call /\ Same(w, v)
      /\ v.proxy = [p \in Proxy |-> IF p \in P THEN [w.proxy[p] EXCEPT !.connected = b]
                                                ELSE w.proxy[p]]
  BY DEF IsWorld, Same
<1> HIDE DEF v
<1>2. \A p \in Proxy :
        /\ v.proxy[p] \in ProxyType
        /\ v.proxy[p].connected =
             IF w.proxy[p].status # "none" THEN b ELSE w.proxy[p].connected
        /\ v.proxy[p].path = w.proxy[p].path
        /\ v.proxy[p].status = w.proxy[p].status
  BY <1>1 DEF IsWorld, ProxyType, Existing
<1>3. v.proxy \in [Proxy -> ProxyType]
  BY <1>1, <1>2
<1>4. IsWorld(v)
  BY <1>1, <1>2, <1>3, ProxyOfCall DEF IsWorld
<1>5. Late(w) => Late(v)
  BY <1>1 DEF Late
<1>6. Kept(w, v)
  BY <1>1, <1>2, <1>4, <1>5 DEF Kept
<1>7. QED
  BY <1>1, <1>2, <1>4, <1>6 DEF v

\* connected() reaches every proxy: what waits for a path goes on waiting, the rest is sent.
LEMMA EmitConnectedEffect ==
  ASSUME NEW w, IsWorld(w), Connected(w)
  PROVE  LET v == EmitConnected(w) IN
         /\ IsWorld(v) /\ Kept(w, v) /\ v.manager = w.manager
         /\ \A p \in Proxy : w.proxy[p].status # "none" =>
              /\ v.proxy[p].connected
              /\ v.proxy[p].status = IF w.proxy[p].path = "none" THEN "Incomplete" ELSE "Ready"
         /\ \A c \in Call :
              LET p == ProxyOf(c) IN
              /\ w.call[c].state = "queued" /\ w.proxy[p].status # "none"
                   /\ w.proxy[p].path # "none" => v.call[c] = Sent(w, p)
              /\ w.call[c].state = "sent" /\ w.proxy[p].status = "Ready" =>
                   v.call[c] = [w.call[c] EXCEPT !.destroyed = TRUE]
              /\ \/ w.call[c].state = "sent" /\ w.proxy[p].status = "Ready"
                 \/ w.call[c].state = "queued" /\ w.proxy[p].status # "none"
                      /\ w.proxy[p].path # "none"
                 \/ v.call[c] = w.call[c]
<1> DEFINE P == Existing(w)
           u == [w EXCEPT !.proxy = [p \in Proxy |->
                   IF p \in P THEN [@[p] EXCEPT !.connected = TRUE] ELSE @[p]]]
           v == Update(u, P)
<1>1. v = EmitConnected(w)
  BY DEF EmitConnected
<1>2. /\ IsWorld(u) /\ Kept(w, u)
      /\ u.manager = w.manager /\ u.call = w.call
      /\ \A p \in Proxy :
           /\ u.proxy[p].connected =
                IF w.proxy[p].status # "none" THEN TRUE ELSE w.proxy[p].connected
           /\ u.proxy[p].path = w.proxy[p].path
           /\ u.proxy[p].status = w.proxy[p].status
  BY SetConnected
<1> HIDE DEF u
<1>3. P \in SUBSET Existing(u) /\ P \in SUBSET Proxy
  BY <1>2 DEF Existing
<1>4. /\ IsWorld(v) /\ v.manager = u.manager
      /\ \A p \in Proxy :
           /\ v.proxy[p].connected = u.proxy[p].connected
           /\ v.proxy[p].path = u.proxy[p].path
           /\ v.proxy[p].status = IF p \in P THEN Status(u, p) ELSE u.proxy[p].status
      /\ \A c \in Call : v.call[c] = Updated(u, P, c)
  BY <1>2, <1>3, UpdateEffect
<1>5. Kept(w, v)
  BY <1>2, <1>3, UpdateKeeps, KeptTransitive
<1>6. Connected(u)
  BY <1>2 DEF Connected
<1> HIDE DEF v
<1>7. \A p \in Proxy : w.proxy[p].status # "none" =>
        /\ v.proxy[p].connected
        /\ Status(u, p) = IF w.proxy[p].path = "none" THEN "Incomplete" ELSE "Ready"
        /\ v.proxy[p].status = Status(u, p)
        /\ p \in P
  BY <1>2, <1>4, <1>6 DEF Existing, Status
<1>8. ASSUME NEW c \in Call
      PROVE  LET p == ProxyOf(c) IN
             /\ w.call[c].state = "queued" /\ w.proxy[p].status # "none"
                  /\ w.proxy[p].path # "none" => v.call[c] = Sent(w, p)
             /\ w.call[c].state = "sent" /\ w.proxy[p].status = "Ready" =>
                  v.call[c] = [w.call[c] EXCEPT !.destroyed = TRUE]
             /\ \/ w.call[c].state = "sent" /\ w.proxy[p].status = "Ready"
                \/ w.call[c].state = "queued" /\ w.proxy[p].status # "none"
                     /\ w.proxy[p].path # "none"
                \/ v.call[c] = w.call[c]
  <2> DEFINE p == ProxyOf(c)
  <2>1. p \in Proxy
    BY ProxyOfCall
  <2>2. v.call[c] = Updated(u, P, c) /\ u.call[c] = w.call[c]
    BY <1>2, <1>4
  <2>3. Sent(u, p) = Sent(w, p)
    BY <1>2, <1>6, <2>1 DEF Sent
  <2>4. p \in P <=> w.proxy[p].status # "none"
    BY <2>1 DEF Existing
  <2>5. u.proxy[p].status = w.proxy[p].status
    BY <1>2, <2>1
  <2>6. p \in P => (Status(u, p) = "Ready") = (w.proxy[p].path # "none")
    BY <1>7, <2>1, <2>4
  <2> HIDE DEF p, P
  <2>7. v.call[c] =
          IF p \in P /\ w.call[c].state = "queued" /\ Status(u, p) = "Ready" THEN Sent(w, p)
          ELSE IF p \in P /\ w.call[c].state = "sent" /\ w.proxy[p].status = "Ready"
            THEN [w.call[c] EXCEPT !.destroyed = TRUE]
          ELSE w.call[c]
    BY <2>2, <2>3, <2>5 DEF Updated, p
  <2>8. QED
    BY <2>4, <2>6, <2>7 DEF p
<1>9. QED
  BY <1>1, <1>2, <1>4, <1>5, <1>7, <1>8


\* disconnected() reaches every proxy: none has a path any more, and what was sent is orphaned.
LEMMA EmitDisconnectedEffect ==
  ASSUME NEW w, IsWorld(w)
  PROVE  LET v == EmitDisconnected(w) IN
         /\ IsWorld(v) /\ Same(w, v) /\ v.manager = w.manager
         /\ \A p \in Proxy :
              IF w.proxy[p].status = "none" THEN v.proxy[p] = w.proxy[p]
              ELSE v.proxy[p] = [connected |-> FALSE, path |-> "none", status |-> "Incomplete"]
         /\ \A c \in Call :
              v.call[c] = IF w.call[c].state = "sent" /\ w.proxy[ProxyOf(c)].status = "Ready"
                            THEN [w.call[c] EXCEPT !.destroyed = TRUE] ELSE w.call[c]
<1> DEFINE P == Existing(w)
           u == [w EXCEPT !.proxy = [p \in Proxy |->
                   IF p \in P THEN [@[p] EXCEPT !.connected = FALSE, !.path = "none"]
                              ELSE @[p]]]
           v == Update(u, P)
<1>1. v = EmitDisconnected(w)
  BY DEF EmitDisconnected
<1>2. /\ DOMAIN u = DOMAIN w /\ u.manager = w.manager /\ u.call = w.call /\ Same(w, u)
      /\ u.proxy = [p \in Proxy |->
                      IF p \in P THEN [w.proxy[p] EXCEPT !.connected = FALSE, !.path = "none"]
                                 ELSE w.proxy[p]]
  BY DEF IsWorld, Same
<1> HIDE DEF u, P
<1>3. ASSUME NEW p \in Proxy
      PROVE  /\ u.proxy[p] \in ProxyType
             /\ u.proxy[p].status = w.proxy[p].status
             /\ p \in P => u.proxy[p].connected = FALSE /\ u.proxy[p].path = "none"
             /\ p \notin P => u.proxy[p] = w.proxy[p]
  <2>1. w.proxy[p] \in ProxyType
    BY DEF IsWorld
  <2>2. p \in P => u.proxy[p] = [w.proxy[p] EXCEPT !.connected = FALSE, !.path = "none"]
    BY <1>2
  <2>3. p \notin P => u.proxy[p] = w.proxy[p]
    BY <1>2
  <2>4. QED
    BY <2>1, <2>2, <2>3 DEF ProxyType
<1>4. IsWorld(u)
  BY <1>2, <1>3, ProxyOfCall DEF IsWorld
<1>5. P \in SUBSET Proxy
  BY DEF Existing, P
<1>6. /\ IsWorld(v) /\ Same(u, v) /\ v.manager = u.manager
      /\ \A p \in Proxy :
           /\ v.proxy[p].connected = u.proxy[p].connected
           /\ v.proxy[p].path = u.proxy[p].path
           /\ v.proxy[p].status = IF p \in P THEN Status(u, p) ELSE u.proxy[p].status
      /\ \A c \in Call : v.call[c] = Updated(u, P, c)
  BY <1>4, <1>5, UpdateEffect
<1> HIDE DEF v
<1>7. \A p \in P : Status(u, p) = "Incomplete"
  BY <1>3, <1>5 DEF Status
<1>8. ASSUME NEW p \in Proxy
      PROVE  IF w.proxy[p].status = "none" THEN v.proxy[p] = w.proxy[p]
             ELSE v.proxy[p] = [connected |-> FALSE, path |-> "none", status |-> "Incomplete"]
  <2>1. v.proxy[p] \in ProxyType /\ u.proxy[p] \in ProxyType
    BY <1>3, <1>6 DEF IsWorld
  <2>2. p \in P <=> w.proxy[p].status # "none"
    BY DEF Existing, P
  <2>3. CASE p \in P
    <3>1. v.proxy[p].connected = FALSE /\ v.proxy[p].path = "none"
            /\ v.proxy[p].status = "Incomplete"
      BY <1>3, <1>6, <1>7, <2>3
    <3>2. QED
      BY <2>1, <2>2, <2>3, <3>1 DEF ProxyType
  <2>4. CASE p \notin P
    <3>1. v.proxy[p].connected = u.proxy[p].connected /\ v.proxy[p].path = u.proxy[p].path
            /\ v.proxy[p].status = u.proxy[p].status
      BY <1>6, <2>4
    <3>2. v.proxy[p] = u.proxy[p]
      BY <2>1, <3>1 DEF ProxyType
    <3>3. QED
      BY <1>3, <2>2, <2>4, <3>2
  <2>5. QED
    BY <2>3, <2>4
<1>9. ASSUME NEW c \in Call
      PROVE  v.call[c] = IF w.call[c].state = "sent" /\ w.proxy[ProxyOf(c)].status = "Ready"
                           THEN [w.call[c] EXCEPT !.destroyed = TRUE] ELSE w.call[c]
  <2> DEFINE p == ProxyOf(c)
  <2>1. p \in Proxy
    BY ProxyOfCall
  <2>2. u.call[c] = w.call[c] /\ u.proxy[p].status = w.proxy[p].status
    BY <1>2, <1>3, <2>1
  <2>3. w.proxy[p].status = "Ready" => p \in P
    BY <2>1 DEF Existing, P
  <2>4. v.call[c] = Updated(u, P, c)
    BY <1>6
  <2>5. p \in P => Status(u, p) # "Ready"
    BY <1>7
  <2> HIDE DEF p
  <2>6. QED
    BY <2>2, <2>3, <2>4, <2>5 DEF Updated, p
<1>10. Same(w, v)
  BY <1>2, <1>6 DEF Same
<1>11. QED
  BY <1>1, <1>2, <1>6, <1>8, <1>9, <1>10

\* setObjectPath() of the main proxy
LEMMA SetObjectPathEffect ==
  ASSUME NEW w, IsWorld(w), NEW path \in {"none", "daemon", "live", "dead"}
  PROVE  LET v == SetObjectPath(w, path) IN
         /\ IsWorld(v) /\ Same(w, v) /\ v.manager = w.manager
         /\ \A r \in Reg : v.proxy[r] = w.proxy[r] /\ v.call[r] = w.call[r]
         /\ v.proxy[Main].path = path /\ v.proxy[Main].connected = w.proxy[Main].connected
         /\ v.proxy[Main].status =
              IF ~w.proxy[Main].connected \/ path = "none" THEN "Incomplete"
              ELSE IF Connected(w) THEN "Ready" ELSE "Invalid"
         /\ \A c \in Own :
              v.call[c] =
                IF w.call[c].state = "queued" /\ v.proxy[Main].status = "Ready" THEN Sent(v, Main)
                ELSE IF w.call[c].state = "sent" /\ w.proxy[Main].status = "Ready"
                  THEN [w.call[c] EXCEPT !.destroyed = TRUE]
                ELSE w.call[c]
<1> DEFINE u == [w EXCEPT !.proxy[Main].path = path]
           v == Update(u, {Main})
<1>1. v = SetObjectPath(w, path)
  BY DEF SetObjectPath
<1>2. /\ DOMAIN u = DOMAIN w /\ u.manager = w.manager /\ u.call = w.call /\ Same(w, u)
      /\ u.proxy = [w.proxy EXCEPT ![Main].path = path]
  BY DEF IsWorld, Same
<1> HIDE DEF u
<1>3. /\ u.proxy \in [Proxy -> ProxyType]
      /\ u.proxy[Main].status = w.proxy[Main].status
      /\ u.proxy[Main].path = path
      /\ u.proxy[Main].connected = w.proxy[Main].connected
      /\ \A r \in Reg : u.proxy[r] = w.proxy[r]
  BY <1>2, ProxyOfCall DEF IsWorld, ProxyType
<1>4. IsWorld(u)
  BY <1>2, <1>3 DEF IsWorld
<1>5. {Main} \in SUBSET Proxy
  BY ProxyOfCall
<1>6. /\ IsWorld(v) /\ Same(u, v) /\ v.manager = u.manager
      /\ \A p \in Proxy :
           /\ v.proxy[p].connected = u.proxy[p].connected
           /\ v.proxy[p].path = u.proxy[p].path
           /\ v.proxy[p].status = IF p = Main THEN Status(u, p) ELSE u.proxy[p].status
      /\ \A c \in Call : v.call[c] = Updated(u, {Main}, c)
  <2>1. /\ IsWorld(v) /\ Same(u, v) /\ v.manager = u.manager
        /\ \A p \in Proxy :
             /\ v.proxy[p].connected = u.proxy[p].connected
             /\ v.proxy[p].path = u.proxy[p].path
             /\ v.proxy[p].status = IF p \in {Main} THEN Status(u, p) ELSE u.proxy[p].status
        /\ \A c \in Call : v.call[c] = Updated(u, {Main}, c)
    BY <1>4, <1>5, UpdateEffect
  <2> HIDE DEF v
  <2>2. QED
    BY <2>1
<1> HIDE DEF v
<1>7. Connected(u) = Connected(w) /\ Connected(v) = Connected(w)
  BY <1>2, <1>6 DEF Connected
<1>8. v.proxy[Main].status =
        IF ~w.proxy[Main].connected \/ path = "none" THEN "Incomplete"
        ELSE IF Connected(w) THEN "Ready" ELSE "Invalid"
  BY <1>3, <1>6, <1>7, ProxyOfCall DEF Status
<1>9. ASSUME NEW r \in Reg
      PROVE  v.proxy[r] = w.proxy[r] /\ v.call[r] = w.call[r]
  <2>1. r \in Proxy /\ r # Main /\ r \in Call /\ ProxyOf(r) = r
    BY ProxyOfCall
  <2>2. v.proxy[r] \in ProxyType /\ u.proxy[r] \in ProxyType
    BY <1>4, <1>6, <2>1 DEF IsWorld
  <2>3. v.proxy[r] = u.proxy[r]
    BY <1>6, <2>1, <2>2 DEF ProxyType
  <2>4. v.call[r] = u.call[r]
    BY <1>6, <2>1 DEF Updated
  <2>5. QED
    BY <1>2, <1>3, <2>3, <2>4
<1>10. Sent(u, Main) = Sent(v, Main)
  BY <1>6, <1>7, ProxyOfCall DEF Sent
<1>11. ASSUME NEW c \in Own
       PROVE  v.call[c] =
                IF w.call[c].state = "queued" /\ v.proxy[Main].status = "Ready" THEN Sent(v, Main)
                ELSE IF w.call[c].state = "sent" /\ w.proxy[Main].status = "Ready"
                  THEN [w.call[c] EXCEPT !.destroyed = TRUE]
                ELSE w.call[c]
  <2>1. c \in Call /\ ProxyOf(c) = Main
    BY ProxyOfCall
  <2>2. v.call[c] = Updated(u, {Main}, c) /\ u.call[c] = w.call[c]
    BY <1>2, <1>6, <2>1
  <2>3. v.proxy[Main].status = Status(u, Main)
    BY <1>6, ProxyOfCall
  <2>4. QED
    BY <1>3, <1>10, <2>1, <2>2, <2>3 DEF Updated
<1>12. Same(w, v)
  BY <1>2, <1>6 DEF Same
<1>13. v.proxy[Main].path = path /\ v.proxy[Main].connected = w.proxy[Main].connected
  BY <1>3, <1>6, ProxyOfCall
<1>14. QED
  BY <1>1, <1>2, <1>6, <1>8, <1>9, <1>11, <1>12, <1>13

\* setupSocketConnection(): nothing, a request to the bus, or a connection
LEMMA SetManager ==
  ASSUME NEW w, IsWorld(w), NEW m \in ManagerType
  PROVE  LET v == [w EXCEPT !.manager = m] IN
         /\ IsWorld(v) /\ Kept(w, v)
         /\ v.manager = m /\ v.proxy = w.proxy /\ v.call = w.call
<1> DEFINE v == [w EXCEPT !.manager = m]
<1>1. /\ v.manager = m /\ v.proxy = w.proxy /\ v.call = w.call /\ Same(w, v)
      /\ DOMAIN v = DOMAIN w
  BY DEF IsWorld, Same
<1> HIDE DEF v
<1>2. IsWorld(v)
  BY <1>1 DEF IsWorld
<1>3. Late(w) => Late(v)
  BY <1>1 DEF Late
<1>4. Kept(w, v)
  BY <1>1, <1>2, <1>3 DEF Kept
<1>5. QED
  BY <1>1, <1>2, <1>4 DEF v

\* The world in which a connection has been made, before anybody has been told
Joined(w, k) == [w EXCEPT !.manager = [w.manager EXCEPT !.connection = k]]
Asking(w) ==
  [w EXCEPT !.manager = [w.manager EXCEPT !.service = "activating", !.activation = "asked"]]

LEMMA SetupEffect ==
  ASSUME NEW w, IsWorld(w)
  PROVE  /\ Kept(w, Setup(w))
         /\ \/ Setup(w) = w
            \/ Setup(w) = Asking(w)
            \/ \E k \in {"peer", "bus"} : Setup(w) = EmitConnected(Joined(w, k))
<1>1. \/ Setup(w) = w
      \/ Setup(w) = Asking(w)
      \/ \E k \in {"peer", "bus"} : Setup(w) = EmitConnected(Joined(w, k))
  BY DEF Setup, Asking, Joined, IsWorld
<1>2. CASE Setup(w) = w
  BY <1>2 DEF Kept, Same
<1>3. CASE Setup(w) = Asking(w)
  <2>1. [w.manager EXCEPT !.service = "activating", !.activation = "asked"] \in ManagerType
    BY DEF IsWorld, ManagerType
  <2>2. QED
    BY <1>3, <2>1, SetManager DEF Asking
<1>4. ASSUME NEW k \in {"peer", "bus"}, Setup(w) = EmitConnected(Joined(w, k))
      PROVE  Kept(w, Setup(w))
  <2>1. /\ [w.manager EXCEPT !.connection = k] \in ManagerType
        /\ [w.manager EXCEPT !.connection = k].connection = k
    BY DEF IsWorld, ManagerType
  <2>2. /\ IsWorld(Joined(w, k)) /\ Kept(w, Joined(w, k))
        /\ Joined(w, k).manager.connection = k
    BY <2>1, SetManager DEF Joined
  <2>3. Connected(Joined(w, k))
    BY <2>2 DEF Connected
  <2>4. QED
    BY <1>4, <2>2, <2>3, EmitConnectedEffect, KeptTransitive
<1>5. QED
  BY <1>1, <1>2, <1>3, <1>4

\* connect()
LEMMA ConnectKeeps ==
  ASSUME NEW w, IsWorld(w)
  PROVE  Kept(w, Connect(w))
BY EmitConnectedEffect, SetupEffect DEF Connect

\* A call is made: nothing else is made or taken away.
Added(w, v, c) ==
  /\ IsWorld(v) /\ Same(w, v)
  /\ \A p \in Proxy :
       /\ (v.proxy[p].status = "none") = (w.proxy[p].status = "none")
       /\ v.proxy[p].path = w.proxy[p].path
  /\ v.call[c].state # "none"
  /\ \A d \in Call \ {c} : (v.call[d].state = "none") = (w.call[d].state = "none")
  /\ w.proxy[Main].path = "dead" /\ Late(w) => Late(v)

\* The world in which a call has been put into the queue
InQueue(w, c) ==
  [w EXCEPT !.call[c].state = "queued", !.call[c].destroyed = FALSE, !.call[c].answers = {}]

LEMMA SetCall ==
  ASSUME NEW w, IsWorld(w), NEW c \in Call, NEW r \in CallType,
         (r.state = "sent") = (r.answers # {})
  PROVE  LET v == [w EXCEPT !.call[c] = r] IN
         /\ IsWorld(v) /\ Same(w, v)
         /\ v.manager = w.manager /\ v.proxy = w.proxy
         /\ v.call = [w.call EXCEPT ![c] = r]
         /\ v.call[c] = r /\ \A d \in Call \ {c} : v.call[d] = w.call[d]
         /\ r.state # "none" /\ (r.state = "sent" => r.answers \ {"success", "error"} # {})
              => Added(w, v, c)
<1> DEFINE v == [w EXCEPT !.call[c] = r]
<1>1. /\ v.manager = w.manager /\ v.proxy = w.proxy
      /\ v.call = [w.call EXCEPT ![c] = r] /\ Same(w, v) /\ DOMAIN v = DOMAIN w
  BY DEF IsWorld, Same
<1> HIDE DEF v
<1>2. v.call[c] = r /\ \A d \in Call \ {c} : v.call[d] = w.call[d]
  BY <1>1 DEF IsWorld
<1>3. v.call \in [Call -> CallType]
  BY <1>1 DEF IsWorld
<1>4. IsWorld(v)
  BY <1>1, <1>2, <1>3 DEF IsWorld
<1>5. ASSUME r.state = "sent" => r.answers \ {"success", "error"} # {}, Late(w)
      PROVE  Late(v)
  BY <1>2, <1>5, ProxyOfCall DEF Late
<1>6. QED
  BY <1>1, <1>2, <1>4, <1>5 DEF Added, v

LEMMA EnqueueEffect ==
  ASSUME NEW w, IsWorld(w), NEW c \in Call
  PROVE  LET u == InQueue(w, c) IN
         /\ IsWorld(u) /\ Same(w, u) /\ u.manager = w.manager /\ u.proxy = w.proxy
         /\ u.call[c].state = "queued"
         /\ \A d \in Call \ {c} : u.call[d] = w.call[d]
         /\ Enqueue(w, c) = IF w.proxy[ProxyOf(c)].connected THEN u ELSE Connect(u)
         /\ Added(w, Enqueue(w, c), c)
<1> DEFINE r == [w.call[c] EXCEPT !.state = "queued", !.destroyed = FALSE, !.answers = {}]
           u == [w EXCEPT !.call[c] = r]
<1>1. r \in CallType /\ r.state = "queued" /\ r.answers = {}
  BY DEF IsWorld, CallType
<1>2. u = InQueue(w, c)
  BY DEF InQueue, IsWorld
<1>3. Enqueue(w, c) = IF w.proxy[ProxyOf(c)].connected THEN u ELSE Connect(u)
  BY <1>2 DEF Enqueue, InQueue
<1> HIDE DEF r
<1>4. /\ IsWorld(u) /\ Same(w, u) /\ u.manager = w.manager /\ u.proxy = w.proxy
      /\ u.call[c] = r /\ \A d \in Call \ {c} : u.call[d] = w.call[d]
      /\ Added(w, u, c)
  BY <1>1, SetCall
<1> HIDE DEF u
<1>5. Kept(u, Connect(u))
  BY <1>4, ConnectKeeps
<1>6. Same(w, Connect(u))
  BY <1>4, <1>5 DEF Kept, Same
<1>7. Added(w, Connect(u), c)
  BY <1>4, <1>5, <1>6 DEF Kept, Added
<1>8. QED
  BY <1>1, <1>2, <1>3, <1>4, <1>7

LEMMA QueueCallEffect ==
  ASSUME NEW w, IsWorld(w), NEW c \in Call, w.call[c].state # "sent"
  PROVE  LET v == QueueCall(w, c) IN
         /\ Added(w, v, c)
         /\ w.proxy[ProxyOf(c)].status = "Ready" =>
              /\ v.manager = w.manager /\ v.proxy = w.proxy
              /\ v.call[c] = Sent(w, ProxyOf(c))
              /\ \A d \in Call \ {c} : v.call[d] = w.call[d]
         /\ w.proxy[ProxyOf(c)].status = "Incomplete" => v = Enqueue(w, c)
<1> DEFINE v == QueueCall(w, c)
           p == ProxyOf(c)
<1>1. CASE w.proxy[p].status = "Ready"
  <2>1. v = [w EXCEPT !.call[c] = Sent(w, p)]
    BY <1>1 DEF QueueCall
  <2>2. /\ IsWorld(v) /\ Same(w, v) /\ v.manager = w.manager /\ v.proxy = w.proxy
        /\ v.call[c] = Sent(w, p) /\ \A d \in Call \ {c} : v.call[d] = w.call[d]
    BY <2>1, SentCall, SetCall
  <2>3. ASSUME w.proxy[Main].path = "dead", Late(w)
        PROVE  Late(v)
    <3>1. c \in Own => Sent(w, p).answers \in {{"Disconnected"}, {"UnknownObject"}}
      BY <2>3, ProxyOfCall, SentCall
    <3>2. c \in Own => Sent(w, p).answers \ {"success", "error"} # {}
      BY <3>1
    <3> HIDE DEF v, p
    <3>3. QED
      BY <2>2, <2>3, <3>2, ProxyOfCall DEF Late
  <2>4. QED
    BY <1>1, <2>2, <2>3, SentCall DEF Added
<1>2. CASE w.proxy[p].status = "Incomplete"
  <2>1. v = Enqueue(w, c)
    BY <1>2 DEF QueueCall
  <2>2. QED
    BY <1>2, <2>1, EnqueueEffect
<1>3. CASE w.proxy[p].status \notin {"Ready", "Incomplete"}
  <2> DEFINE r == [w.call[c] EXCEPT !.state = "failing"]
  <2>1. r \in CallType /\ r.state = "failing" /\ r.answers = w.call[c].answers
    BY DEF IsWorld, CallType
  <2>2. w.call[c].answers = {}
    BY DEF IsWorld
  <2>3. v = [w EXCEPT !.call[c] = r]
    BY <1>3 DEF QueueCall, IsWorld
  <2> HIDE DEF r
  <2>4. Added(w, v, c)
    BY <2>1, <2>2, <2>3, SetCall
  <2>5. QED
    BY <1>3, <2>4
<1>4. QED
  BY <1>1, <1>2, <1>3

\* The proxy of a registration
WithProxy(w, r) ==
  [w EXCEPT !.proxy[r] = [connected |-> Connected(w), path |-> "daemon",
                          status |-> IF Connected(w) THEN "Ready" ELSE "Incomplete"]]

LEMMA QueueRegistrationEffect ==
  ASSUME NEW w, IsWorld(w), NEW r \in Reg, w.call[r].state # "sent"
  PROVE  LET u == WithProxy(w, r) IN
         /\ IsWorld(u) /\ Same(w, u) /\ u.manager = w.manager /\ u.call = w.call
         /\ u.proxy[r] = [connected |-> Connected(w), path |-> "daemon",
                          status |-> IF Connected(w) THEN "Ready" ELSE "Incomplete"]
         /\ \A p \in Proxy \ {r} : u.proxy[p] = w.proxy[p]
         /\ QueueRegistration(w, r) = QueueCall(u, r)
         /\ Added(u, QueueRegistration(w, r), r)
         /\ w.proxy[Main].path = "dead" /\ Late(w) => Late(QueueRegistration(w, r))
<1> DEFINE q == [connected |-> Connected(w), path |-> "daemon",
                 status |-> IF Connected(w) THEN "Ready" ELSE "Incomplete"]
           u == WithProxy(w, r)
<1>1. q \in ProxyType
  BY DEF ProxyType, Connected
<1>2. /\ DOMAIN u = DOMAIN w /\ u.manager = w.manager /\ u.call = w.call /\ Same(w, u)
      /\ u.proxy = [w.proxy EXCEPT ![r] = q]
  BY DEF IsWorld, Same, WithProxy
<1>3. QueueRegistration(w, r) = QueueCall(u, r)
  BY DEF QueueRegistration, WithProxy
<1> HIDE DEF q, u
<1>4. r \in Proxy /\ r # Main /\ r \in Call
  BY ProxyOfCall
<1>5. u.proxy[r] = q /\ \A p \in Proxy \ {r} : u.proxy[p] = w.proxy[p]
  BY <1>2, <1>4 DEF IsWorld
<1>6. u.proxy \in [Proxy -> ProxyType]
  BY <1>1, <1>2 DEF IsWorld
<1>7. IsWorld(u)
  BY <1>2, <1>4, <1>5, <1>6, ProxyOfCall DEF IsWorld
<1>8. Added(u, QueueRegistration(w, r), r)
  BY <1>2, <1>3, <1>4, <1>7, QueueCallEffect
<1>9. w.proxy[Main].path = "dead" /\ Late(w) => Late(QueueRegistration(w, r))
  BY <1>2, <1>4, <1>5, <1>8, ProxyOfCall DEF Added, Late
<1>10. QED
  BY <1>2, <1>3, <1>5, <1>7, <1>8, <1>9 DEF q, u

-----------------------------------------------------------------------------
\* What the operators of a session make of its world

\* RegistrationUnderway with what it needs
SessionWorld(w) ==
  /\ IsWorld(w)
  /\ {"auth", "processCall", "reports"} \subseteq DOMAIN w
  /\ w.auth \in BOOLEAN
  /\ w.processCall \in ProcessCall \cup {None}
  /\ w.reports \in [Own -> Nat]
  /\ \A r \in Reg : (w.call[r].state = "none") = (w.proxy[r].status = "none")
  /\ w.auth => \E r \in Reg : w.call[r].state # "none"

\* What a session adds to the world is left alone.
LEMMA SameSession ==
  ASSUME NEW w, SessionWorld(w), NEW v, IsWorld(v),
         {"auth", "processCall", "reports"} \subseteq DOMAIN v,
         v.auth = w.auth, v.processCall = w.processCall, v.reports = w.reports,
         \A r \in Reg : /\ (v.call[r].state = "none") = (w.call[r].state = "none")
                       /\ (v.proxy[r].status = "none") = (w.proxy[r].status = "none")
  PROVE  SessionWorld(v)
<1>1. \A r \in Reg : (v.call[r].state = "none") = (v.proxy[r].status = "none")
  BY DEF SessionWorld
<1>2. v.auth => \E r \in Reg : v.call[r].state # "none"
  BY DEF SessionWorld
<1>3. QED
  BY <1>1, <1>2 DEF SessionWorld

\* What is needed of a handler for gone: it may leave the object dead.
StaysLate(w, v) == v.proxy[Main].path = "dead" /\ Late(w) => Late(v)

MayRegister(w) == w.auth \/ \E r \in Reg : w.call[r].state = "none"

\* The registration that Register makes, and the world it is made in
NewRegistration(w) == CHOOSE r \in Reg : w.call[r].state = "none"
Registering(w) == [w EXCEPT !.auth = TRUE]

LEMMA RegisteringEffect ==
  ASSUME NEW w, SessionWorld(w)
  PROVE  LET u == Registering(w) IN
         /\ IsWorld(u) /\ DOMAIN u = DOMAIN w
         /\ u.auth = TRUE /\ u.processCall = w.processCall /\ u.reports = w.reports
         /\ u.manager = w.manager /\ u.proxy = w.proxy /\ u.call = w.call
<1> DEFINE u == Registering(w)
<1>1. /\ DOMAIN u = DOMAIN w
      /\ u.auth = TRUE /\ u.processCall = w.processCall /\ u.reports = w.reports
      /\ u.manager = w.manager /\ u.proxy = w.proxy /\ u.call = w.call
  BY DEF SessionWorld, IsWorld, Registering
<1>2. IsWorld(u)
  BY <1>1 DEF SessionWorld, IsWorld
<1>3. QED
  BY <1>1, <1>2

LEMMA RegisterEffect ==
  ASSUME NEW w, SessionWorld(w), MayRegister(w)
  PROVE  LET v == Register(w) IN
         /\ SessionWorld(v) /\ StaysLate(w, v)
         /\ v.processCall = w.processCall /\ v.reports = w.reports
         /\ v.proxy[Main].path = w.proxy[Main].path
         /\ w.auth => v = w
         /\ ~w.auth => LET r == NewRegistration(w) IN
              /\ r \in Reg /\ w.call[r].state = "none"
              /\ v = QueueRegistration(Registering(w), r)
              /\ v.auth
<1> DEFINE v == Register(w)
           r == NewRegistration(w)
           u == Registering(w)
<1>1. CASE w.auth
  BY <1>1 DEF Register, StaysLate, SessionWorld
<1>2. CASE ~w.auth
  <2>1. r \in Reg /\ w.call[r].state = "none"
    BY <1>2 DEF MayRegister, NewRegistration
  <2>2. v = QueueRegistration(u, r)
    BY <1>2 DEF Register, NewRegistration, Registering
  <2> HIDE DEF r, v
  <2>3. /\ IsWorld(u) /\ DOMAIN u = DOMAIN w
        /\ u.auth = TRUE /\ u.processCall = w.processCall /\ u.reports = w.reports
        /\ u.manager = w.manager /\ u.proxy = w.proxy /\ u.call = w.call
    BY RegisteringEffect
  <2> HIDE DEF u
  <2> DEFINE x == WithProxy(u, r)
  <2>a. u.call[r].state # "sent"
    BY <2>1, <2>3
  <2>b. /\ Same(u, x) /\ x.call = u.call
        /\ x.proxy[r] = [connected |-> Connected(u), path |-> "daemon",
                         status |-> IF Connected(u) THEN "Ready" ELSE "Incomplete"]
        /\ \A p \in Proxy \ {r} : x.proxy[p] = u.proxy[p]
        /\ Added(x, v, r)
        /\ u.proxy[Main].path = "dead" /\ Late(u) => Late(v)
    BY <2>1, <2>2, <2>3, <2>a, QueueRegistrationEffect
  <2> HIDE DEF x
  <2>4. x.proxy[r].status # "none" /\ x.proxy[Main] = u.proxy[Main]
    BY <2>1, <2>b, ProxyOfCall
  <2>5. Same(u, v)
    BY <2>4, <2>b DEF Added, Same
  <2>6. /\ v.auth = TRUE /\ v.processCall = w.processCall /\ v.reports = w.reports
        /\ {"auth", "processCall", "reports"} \subseteq DOMAIN v
    BY <2>3, <2>5 DEF Same, SessionWorld
  <2>7. /\ v.call[r].state # "none" /\ v.proxy[r].status # "none"
        /\ v.proxy[Main].path = w.proxy[Main].path
    BY <2>1, <2>3, <2>4, <2>b, ProxyOfCall DEF Added
  <2>8. ASSUME NEW s \in Reg, s # r
        PROVE  (v.call[s].state = "none") = (v.proxy[s].status = "none")
    <3>1. s \in Call /\ s \in Proxy
      BY ProxyOfCall
    <3>2. (v.call[s].state = "none") = (x.call[s].state = "none")
      BY <2>4, <2>b, <2>8, <3>1 DEF Added
    <3>3. (v.proxy[s].status = "none") = (x.proxy[s].status = "none")
      BY <2>4, <2>b, <2>8, <3>1 DEF Added
    <3>4. x.call[s] = w.call[s] /\ x.proxy[s] = w.proxy[s]
      BY <2>3, <2>4, <2>b, <2>8, <3>1
    <3>5. QED
      BY <3>2, <3>3, <3>4 DEF SessionWorld
  <2>9. SessionWorld(v)
    BY <2>1, <2>4, <2>b, <2>6, <2>7, <2>8 DEF SessionWorld, Added
  <2>10. StaysLate(w, v)
    BY <2>3, <2>4, <2>b, <2>7 DEF StaysLate, Late
  <2>11. QED
    BY <1>2, <2>1, <2>2, <2>6, <2>7, <2>9, <2>10 DEF r, u, v
<1>3. QED
  BY <1>1, <1>2 DEF SessionWorld

\* A call is made, and a path asked for if there is none.
LEMMA AddedToSession ==
  ASSUME NEW w, SessionWorld(w), NEW c \in Own, NEW v, Added(w, v, c)
  PROVE  /\ SessionWorld(v) /\ StaysLate(w, v)
         /\ v.auth = w.auth /\ v.processCall = w.processCall /\ v.reports = w.reports
         /\ v.proxy[Main].path = w.proxy[Main].path
         /\ MayRegister(w) => MayRegister(v)
<1>1. /\ v.auth = w.auth /\ v.processCall = w.processCall /\ v.reports = w.reports
      /\ {"auth", "processCall", "reports"} \subseteq DOMAIN v
  BY DEF Added, Same, SessionWorld
<1>2. \A r \in Reg : /\ (v.call[r].state = "none") = (w.call[r].state = "none")
                     /\ (v.proxy[r].status = "none") = (w.proxy[r].status = "none")
  BY ProxyOfCall DEF Added
<1>3. SessionWorld(v)
  BY <1>1, <1>2 DEF Added, SessionWorld
<1>4. StaysLate(w, v) /\ v.proxy[Main].path = w.proxy[Main].path
  BY ProxyOfCall DEF Added, StaysLate
<1>5. QED
  BY <1>1, <1>2, <1>3, <1>4 DEF MayRegister

LEMMA SendEffect ==
  ASSUME NEW w, SessionWorld(w), MayRegister(w), NEW c \in Own, w.call[c].state = "none"
  PROVE  LET u == QueueCall(w, c)
             v == Send(w, c)
         IN /\ SessionWorld(v) /\ StaysLate(w, v)
            /\ v.processCall = w.processCall /\ v.reports = w.reports
            /\ v.proxy[Main].path = w.proxy[Main].path
            /\ SessionWorld(u) /\ MayRegister(u)
            /\ u.auth = w.auth /\ u.processCall = w.processCall /\ u.reports = w.reports
            /\ v = IF NeedsPath(u, c) THEN Register(u) ELSE u
<1> DEFINE u == QueueCall(w, c)
           v == Send(w, c)
<1>1. v = IF NeedsPath(u, c) THEN Register(u) ELSE u
  BY DEF Send
<1>2. Added(w, u, c)
  BY ProxyOfCall, QueueCallEffect DEF SessionWorld
<1> HIDE DEF u, v
<1>3. /\ SessionWorld(u) /\ StaysLate(w, u) /\ MayRegister(u)
      /\ u.auth = w.auth /\ u.processCall = w.processCall /\ u.reports = w.reports
      /\ u.proxy[Main].path = w.proxy[Main].path
  BY <1>2, AddedToSession
<1>4. /\ SessionWorld(Register(u)) /\ StaysLate(u, Register(u))
      /\ Register(u).proxy[Main].path = u.proxy[Main].path
      /\ Register(u).processCall = u.processCall /\ Register(u).reports = u.reports
  BY <1>3, RegisterEffect
<1>5. StaysLate(w, Register(u))
  BY <1>2, <1>3, <1>4 DEF StaysLate
<1>6. QED
  BY <1>1, <1>3, <1>4, <1>5 DEF u, v

LEMMA ReportEffect ==
  ASSUME NEW w, SessionWorld(w), NEW C
  PROVE  LET v == Report(w, C) IN
         /\ SessionWorld(v)
         /\ v.manager = w.manager /\ v.proxy = w.proxy /\ v.call = w.call
         /\ v.auth = w.auth /\ v.processCall = w.processCall
         /\ \A c \in Own : v.reports[c] = IF c \in C THEN w.reports[c] + 1 ELSE w.reports[c]
<1> DEFINE v == Report(w, C)
<1>1. /\ DOMAIN v = DOMAIN w
      /\ v.manager = w.manager /\ v.proxy = w.proxy /\ v.call = w.call
      /\ v.auth = w.auth /\ v.processCall = w.processCall
      /\ v.reports = [c \in Own |-> IF c \in C THEN w.reports[c] + 1 ELSE w.reports[c]]
  BY DEF Report, SessionWorld, IsWorld
<1> HIDE DEF v
<1>2. \A c \in Own : w.reports[c] \in Nat
  BY DEF SessionWorld
<1>3. v.reports \in [Own -> Nat]
  BY <1>1, <1>2
<1>4. SessionWorld(v)
  BY <1>1, <1>3 DEF SessionWorld, IsWorld
<1>5. QED
  BY <1>1, <1>4 DEF v

\* Assignments to m_isAuthInProcessing and m_processCall
LEMMA AssignmentEffect ==
  ASSUME NEW w, SessionWorld(w), NEW p \in ProcessCall \cup {None}
  PROVE  /\ LET v == [w EXCEPT !.processCall = p] IN
            /\ SessionWorld(v)
            /\ v.manager = w.manager /\ v.proxy = w.proxy /\ v.call = w.call
            /\ v.auth = w.auth /\ v.processCall = p /\ v.reports = w.reports
         /\ LET v == [w EXCEPT !.auth = FALSE] IN
            /\ SessionWorld(v)
            /\ v.manager = w.manager /\ v.proxy = w.proxy /\ v.call = w.call
            /\ v.auth = FALSE /\ v.processCall = w.processCall /\ v.reports = w.reports
<1> DEFINE u == [w EXCEPT !.processCall = p]
           v == [w EXCEPT !.auth = FALSE]
<1>1. /\ DOMAIN u = DOMAIN w
      /\ u.manager = w.manager /\ u.proxy = w.proxy /\ u.call = w.call
      /\ u.auth = w.auth /\ u.processCall = p /\ u.reports = w.reports
  BY DEF SessionWorld, IsWorld
<1>2. SessionWorld(u)
  BY <1>1 DEF SessionWorld, IsWorld
<1>3. /\ DOMAIN v = DOMAIN w
      /\ v.manager = w.manager /\ v.proxy = w.proxy /\ v.call = w.call
      /\ v.auth = FALSE /\ v.processCall = w.processCall /\ v.reports = w.reports
  BY DEF SessionWorld, IsWorld
<1>4. SessionWorld(v)
  BY <1>3 DEF SessionWorld, IsWorld
<1>5. QED
  BY <1>1, <1>2, <1>3, <1>4

DoneCall == [NoCall EXCEPT !.state = "done"]

LEMMA BlankCalls ==
  /\ DoneCall \in CallType /\ DoneCall.state = "done" /\ DoneCall.answers = {}
  /\ NoCall \in CallType /\ NoCall.state = "none" /\ NoCall.answers = {}
  /\ NoProxy \in ProxyType /\ NoProxy.status = "none"
BY DEF DoneCall, NoCall, CallType, NoProxy, ProxyType

LEMMA SetErrorEffect ==
  ASSUME NEW w, SessionWorld(w)
  PROVE  LET v == SetError(w) IN
         /\ SessionWorld(v)
         /\ v.manager = w.manager /\ v.auth = w.auth /\ v.processCall = w.processCall
         /\ \A r \in Reg : v.proxy[r] = w.proxy[r] /\ v.call[r] = w.call[r]
         /\ v.proxy[Main] = [w.proxy[Main] EXCEPT !.status = "Invalid"]
         /\ \A c \in Own :
              /\ v.call[c] = IF w.call[c].state = "queued" THEN DoneCall ELSE w.call[c]
              /\ v.reports[c] =
                   IF w.call[c].state = "queued" THEN w.reports[c] + 1 ELSE w.reports[c]
<1> DEFINE u == [w EXCEPT
                   !.call = [c \in Call |-> IF c \in Queued(w) THEN [NoCall EXCEPT !.state = "done"]
                                                               ELSE @[c]],
                   !.proxy[Main].status = "Invalid"]
           q == [w.proxy[Main] EXCEPT !.status = "Invalid"]
<1>1. SetError(w) = Report(u, Queued(w))
  BY DEF SetError
<1>2. /\ DOMAIN u = DOMAIN w
      /\ u.manager = w.manager /\ u.auth = w.auth /\ u.processCall = w.processCall
      /\ u.reports = w.reports
      /\ u.call = [c \in Call |-> IF c \in Queued(w) THEN DoneCall ELSE w.call[c]]
      /\ u.proxy = [w.proxy EXCEPT ![Main] = q]
  BY DEF SessionWorld, IsWorld, DoneCall
<1> HIDE DEF u
<1>3. q \in ProxyType /\ q.status # "none"
  BY ProxyOfCall DEF SessionWorld, IsWorld, ProxyType
<1>4. u.proxy \in [Proxy -> ProxyType] /\ u.proxy[Main] = q
  BY <1>2, <1>3, ProxyOfCall DEF SessionWorld, IsWorld
<1>5. \A c \in Call : /\ u.call[c] \in CallType
                      /\ (u.call[c].state = "sent") = (u.call[c].answers # {})
  BY <1>2, BlankCalls DEF SessionWorld, IsWorld
<1>6. u.call \in [Call -> CallType]
  BY <1>2, <1>5
<1>7. IsWorld(u)
  BY <1>2, <1>3, <1>4, <1>5, <1>6 DEF SessionWorld, IsWorld
<1>8. \A r \in Reg : u.proxy[r] = w.proxy[r] /\ u.call[r] = w.call[r]
  BY <1>2, ProxyOfCall DEF Queued, SessionWorld, IsWorld
<1>9. \A c \in Own :
        /\ c \in Queued(w) <=> w.call[c].state = "queued"
        /\ u.call[c] = IF w.call[c].state = "queued" THEN DoneCall ELSE w.call[c]
  BY <1>2, ProxyOfCall DEF Queued
<1> HIDE DEF q
<1>10. SessionWorld(u)
  <2>1. {"auth", "processCall", "reports"} \subseteq DOMAIN u
    BY <1>2, <1>7, <1>8 DEF SessionWorld
  <2>2. \A r \in Reg : /\ (u.call[r].state = "none") = (w.call[r].state = "none")
                      /\ (u.proxy[r].status = "none") = (w.proxy[r].status = "none")
    BY <1>2, <1>7, <1>8, ProxyOfCall
  <2>3. QED
    BY <1>2, <1>7, <1>8, <2>1, <2>2, SameSession
<1>11. /\ SessionWorld(Report(u, Queued(w)))
       /\ Report(u, Queued(w)).manager = u.manager /\ Report(u, Queued(w)).proxy = u.proxy
       /\ Report(u, Queued(w)).call = u.call
       /\ Report(u, Queued(w)).auth = u.auth
       /\ Report(u, Queued(w)).processCall = u.processCall
       /\ \A c \in Own : Report(u, Queued(w)).reports[c] =
                            IF c \in Queued(w) THEN u.reports[c] + 1 ELSE u.reports[c]
  BY <1>10, ReportEffect
<1>12. QED
  BY <1>1, <1>2, <1>4, <1>8, <1>9, <1>11 DEF q

\* setObjectPath() in a session
LEMMA SessionPathEffect ==
  ASSUME NEW w, SessionWorld(w), NEW path \in {"none", "daemon", "live", "dead"}
  PROVE  LET v == SetObjectPath(w, path) IN
         /\ SessionWorld(v) /\ StaysLate(w, v)
         /\ v.auth = w.auth /\ v.processCall = w.processCall /\ v.reports = w.reports
<1> DEFINE v == SetObjectPath(w, path)
<1>1. /\ IsWorld(v) /\ Same(w, v) /\ v.manager = w.manager
      /\ \A r \in Reg : v.proxy[r] = w.proxy[r] /\ v.call[r] = w.call[r]
      /\ v.proxy[Main].path = path
      /\ \A c \in Own :
           v.call[c] =
             IF w.call[c].state = "queued" /\ v.proxy[Main].status = "Ready" THEN Sent(v, Main)
             ELSE IF w.call[c].state = "sent" /\ w.proxy[Main].status = "Ready"
               THEN [w.call[c] EXCEPT !.destroyed = TRUE]
             ELSE w.call[c]
  BY SetObjectPathEffect DEF SessionWorld
<1> HIDE DEF v
<1>2. /\ v.auth = w.auth /\ v.processCall = w.processCall /\ v.reports = w.reports
      /\ {"auth", "processCall", "reports"} \subseteq DOMAIN v
  BY <1>1 DEF Same, SessionWorld
<1>3. SessionWorld(v)
  BY <1>1, <1>2 DEF SessionWorld
<1>4. ASSUME v.proxy[Main].path = "dead", Late(w), NEW c \in Own, v.call[c].state = "sent"
      PROVE  v.call[c].answers \ {"success", "error"} # {}
  <2>1. w.call[c] \in CallType
    BY ProxyOfCall DEF SessionWorld, IsWorld
  <2>2. CASE v.call[c] = Sent(v, Main)
    <3>1. v.call[c].answers \in {{"Disconnected"}, {"UnknownObject"}}
      BY <1>4, <2>2, SentCall
    <3>2. QED
      BY <3>1
  <2>3. CASE w.call[c].state = "sent" /\ v.call[c].answers = w.call[c].answers
    BY <1>4, <2>3 DEF Late
  <2>a. /\ [w.call[c] EXCEPT !.destroyed = TRUE].state = w.call[c].state
        /\ [w.call[c] EXCEPT !.destroyed = TRUE].answers = w.call[c].answers
    BY <2>1 DEF CallType
  <2>4. \/ v.call[c] = Sent(v, Main)
        \/ w.call[c].state = "sent" /\ v.call[c].answers = w.call[c].answers
    BY <1>1, <1>4, <2>a
  <2>5. QED
    BY <2>2, <2>3, <2>4
<1>5. StaysLate(w, v)
  BY <1>4 DEF StaysLate, Late
<1>6. QED
  BY <1>2, <1>3, <1>5 DEF v

\* errorSlot(), without the end of the call
ErrorSlotTo(w, c, v) ==
  /\ SessionWorld(v) /\ StaysLate(w, v)
  /\ v.manager = w.manager /\ v.auth = FALSE /\ v.processCall = None
  /\ \A r \in Reg : v.proxy[r] = w.proxy[r] /\ v.call[r] = w.call[r]
  /\ w.auth =>
       /\ v.proxy[Main].path = "none" /\ v.proxy[Main].status = "Incomplete"
       /\ v.proxy[Main].connected = w.proxy[Main].connected
       /\ \A d \in Own :
            /\ v.call[d] = IF w.call[d].state = "queued" THEN DoneCall ELSE w.call[d]
            /\ v.reports[d] =
                 IF w.call[d].state = "queued" THEN w.reports[d] + 1 ELSE w.reports[d]
  /\ ~w.auth =>
       /\ v.proxy = w.proxy /\ v.call = w.call
       /\ \A d \in Own :
            v.reports[d] = IF d = c THEN w.reports[d] + 1 ELSE w.reports[d]

LEMMA ErrorSlotEffect ==
  ASSUME NEW w, SessionWorld(w), NEW c \in Call
  PROVE  ErrorSlotTo(w, c, ErrorSlot(w, c))
<1> DEFINE v == ErrorSlot(w, c)
           n == [w EXCEPT !.processCall = None]
<1>1. /\ SessionWorld(n)
      /\ n.manager = w.manager /\ n.proxy = w.proxy /\ n.call = w.call
      /\ n.auth = w.auth /\ n.processCall = None /\ n.reports = w.reports
  <2>1. /\ DOMAIN n = DOMAIN w
        /\ n.manager = w.manager /\ n.proxy = w.proxy /\ n.call = w.call
        /\ n.auth = w.auth /\ n.processCall = None /\ n.reports = w.reports
    BY DEF SessionWorld, IsWorld
  <2> HIDE DEF n
  <2>2. SessionWorld(n)
    BY <2>1 DEF SessionWorld, IsWorld
  <2>3. QED
    BY <2>1, <2>2
<1>2. v = IF n.auth THEN SetObjectPath(SetError([n EXCEPT !.auth = FALSE]), "none")
          ELSE Report(n, {c} \cap Own)
  BY DEF ErrorSlot
<1> HIDE DEF n, v
<1>3. CASE w.auth
  <2> DEFINE f == [n EXCEPT !.auth = FALSE]
             e == SetError(f)
  <2>1. /\ SessionWorld(f)
        /\ f.manager = n.manager /\ f.proxy = n.proxy /\ f.call = n.call
        /\ f.auth = FALSE /\ f.processCall = n.processCall /\ f.reports = n.reports
    BY <1>1, AssignmentEffect
  <2>2. v = SetObjectPath(e, "none")
    BY <1>1, <1>2, <1>3
  <2> HIDE DEF f
  <2>3. /\ SessionWorld(e)
        /\ e.manager = f.manager /\ e.auth = f.auth /\ e.processCall = f.processCall
        /\ \A r \in Reg : e.proxy[r] = f.proxy[r] /\ e.call[r] = f.call[r]
        /\ e.proxy[Main] = [f.proxy[Main] EXCEPT !.status = "Invalid"]
        /\ \A d \in Own :
             /\ e.call[d] = IF f.call[d].state = "queued" THEN DoneCall ELSE f.call[d]
             /\ e.reports[d] =
                  IF f.call[d].state = "queued" THEN f.reports[d] + 1 ELSE f.reports[d]
    BY <2>1, SetErrorEffect
  <2> HIDE DEF e
  <2>4. /\ SessionWorld(v)
        /\ v.auth = e.auth /\ v.processCall = e.processCall /\ v.reports = e.reports
    BY <2>2, <2>3, SessionPathEffect
  <2>5. /\ v.manager = e.manager
        /\ \A r \in Reg : v.proxy[r] = e.proxy[r] /\ v.call[r] = e.call[r]
        /\ v.proxy[Main].path = "none" /\ v.proxy[Main].connected = e.proxy[Main].connected
        /\ v.proxy[Main].status = "Incomplete"
        /\ \A d \in Own :
             v.call[d] =
               IF e.call[d].state = "queued" /\ v.proxy[Main].status = "Ready" THEN Sent(v, Main)
               ELSE IF e.call[d].state = "sent" /\ e.proxy[Main].status = "Ready"
                 THEN [e.call[d] EXCEPT !.destroyed = TRUE]
               ELSE e.call[d]
    <3>1. IsWorld(e)
      BY <2>3 DEF SessionWorld
    <3> DEFINE path == "none"
    <3>2. path \in {"none", "daemon", "live", "dead"} /\ path = "none"
      OBVIOUS
    <3> HIDE DEF path
    <3>3. v = SetObjectPath(e, path)
      BY <2>2, <3>2
    <3>4. QED
      BY <3>1, <3>2, <3>3, SetObjectPathEffect
  <2>6. e.proxy[Main].status = "Invalid" /\ e.proxy[Main].connected = f.proxy[Main].connected
    <3>1. f.proxy[Main] \in ProxyType
      BY <2>1, ProxyOfCall DEF SessionWorld, IsWorld
    <3>2. QED
      BY <2>3, <3>1 DEF ProxyType
  <2>7. \A d \in Own : v.call[d] = e.call[d]
    BY <2>5, <2>6
  <2>8. StaysLate(w, v)
    BY <2>5 DEF StaysLate
  <2>9. \A d \in Own :
          /\ v.call[d] = IF w.call[d].state = "queued" THEN DoneCall ELSE w.call[d]
          /\ v.reports[d] =
               IF w.call[d].state = "queued" THEN w.reports[d] + 1 ELSE w.reports[d]
    BY <1>1, <2>1, <2>3, <2>4, <2>7
  <2>10. QED
    BY <1>1, <1>3, <2>1, <2>3, <2>4, <2>5, <2>6, <2>8, <2>9 DEF v, ErrorSlotTo
<1>4. CASE ~w.auth
  <2>1. v = Report(n, {c} \cap Own)
    BY <1>1, <1>2, <1>4
  <2>2. /\ SessionWorld(v)
        /\ v.manager = n.manager /\ v.proxy = n.proxy /\ v.call = n.call
        /\ v.auth = n.auth /\ v.processCall = n.processCall
        /\ \A d \in Own : v.reports[d] =
             IF d \in {c} \cap Own THEN n.reports[d] + 1 ELSE n.reports[d]
    BY <1>1, <2>1, ReportEffect
  <2>3. \A d \in Own : v.reports[d] = IF d = c THEN w.reports[d] + 1 ELSE w.reports[d]
    BY <1>1, <2>2
  <2>4. StaysLate(w, v)
    BY <1>1, <2>2 DEF StaysLate, Late
  <2>5. v.auth = FALSE
    BY <1>1, <1>4, <2>2 DEF SessionWorld
  <2>6. QED
    BY <1>1, <1>4, <2>2, <2>3, <2>4, <2>5 DEF v, ErrorSlotTo
<1>5. QED
  BY <1>3, <1>4

\* onCallFinished(), after what the outcome led to
LEMMA FinishedEffect ==
  ASSUME NEW w, SessionWorld(w), NEW c \in Call, c \in Reg => ~w.auth
  PROVE  LET v == Finished(w, c) IN
         /\ SessionWorld(v) /\ StaysLate(w, v)
         /\ v.manager = w.manager /\ v.auth = w.auth
         /\ v.processCall = w.processCall /\ v.reports = w.reports
         /\ \A d \in Call \ {c} : v.call[d] = w.call[d]
         /\ \A p \in Proxy \ {c} : v.proxy[p] = w.proxy[p]
         /\ c \in Reg => v.call[c] = NoCall /\ v.proxy[c] = NoProxy
         /\ c \notin Reg => v.call[c] = DoneCall /\ v.proxy = w.proxy
<1> DEFINE v == Finished(w, c)
<1>1. CASE c \in Reg
  <2>1. /\ DOMAIN v = DOMAIN w
        /\ v.manager = w.manager /\ v.auth = w.auth
        /\ v.processCall = w.processCall /\ v.reports = w.reports
        /\ v.call = [w.call EXCEPT ![c] = NoCall]
        /\ v.proxy = [w.proxy EXCEPT ![c] = NoProxy]
    BY <1>1 DEF Finished, SessionWorld, IsWorld
  <2> HIDE DEF v
  <2>2. c \in Proxy /\ c # Main
    BY <1>1, ProxyOfCall
  <2>3. /\ v.call[c] = NoCall /\ v.proxy[c] = NoProxy
        /\ \A d \in Call \ {c} : v.call[d] = w.call[d]
        /\ \A p \in Proxy \ {c} : v.proxy[p] = w.proxy[p]
    BY <2>1, <2>2 DEF SessionWorld, IsWorld
  <2>4. v.call \in [Call -> CallType] /\ v.proxy \in [Proxy -> ProxyType]
    BY <2>1, BlankCalls DEF SessionWorld, IsWorld
  <2>5. IsWorld(v)
    BY <2>1, <2>2, <2>3, <2>4, BlankCalls, ProxyOfCall DEF SessionWorld, IsWorld
  <2>6. SessionWorld(v)
    BY <1>1, <2>1, <2>3, <2>5, BlankCalls, ProxyOfCall DEF SessionWorld
  <2>7. StaysLate(w, v)
    BY <1>1, <2>3, ProxyOfCall DEF StaysLate, Late
  <2>8. QED
    BY <1>1, <2>1, <2>3, <2>6, <2>7 DEF v
<1>2. CASE c \notin Reg
  <2>1. /\ DOMAIN v = DOMAIN w
        /\ v.manager = w.manager /\ v.auth = w.auth /\ v.proxy = w.proxy
        /\ v.processCall = w.processCall /\ v.reports = w.reports
        /\ v.call = [w.call EXCEPT ![c] = DoneCall]
    BY <1>2 DEF Finished, SessionWorld, IsWorld, DoneCall
  <2> HIDE DEF v
  <2>2. v.call[c] = DoneCall /\ \A d \in Call \ {c} : v.call[d] = w.call[d]
    BY <2>1 DEF SessionWorld, IsWorld
  <2>3. v.call \in [Call -> CallType]
    BY <2>1, BlankCalls DEF SessionWorld, IsWorld
  <2>4. IsWorld(v)
    BY <2>1, <2>2, <2>3, BlankCalls DEF SessionWorld, IsWorld
  <2>5. \A r \in Reg : v.call[r] = w.call[r]
    BY <1>2, <2>2, ProxyOfCall
  <2>6. SessionWorld(v)
    BY <2>1, <2>4, <2>5 DEF SessionWorld
  <2>7. StaysLate(w, v)
    BY <2>2, BlankCalls, ProxyOfCall DEF StaysLate, Late
  <2>8. QED
    BY <1>2, <2>1, <2>2, <2>6, <2>7 DEF v
<1>3. QED
  BY <1>1, <1>2

\* authenticationSlot()
LEMMA AuthenticatedEffect ==
  ASSUME NEW w, SessionWorld(w), NEW v \in Authenticated(w)
  PROVE  /\ SessionWorld(v) /\ StaysLate(w, v) /\ v.auth = FALSE
         /\ ~(w.proxy[Main].connected /\ ~Connected(w)) =>
              v = [SetObjectPath(w, "live") EXCEPT !.auth = FALSE]
<1>1. ASSUME NEW path \in {"live", "dead"}, v = [SetObjectPath(w, path) EXCEPT !.auth = FALSE]
      PROVE  SessionWorld(v) /\ StaysLate(w, v) /\ v.auth = FALSE
  <2> DEFINE u == SetObjectPath(w, path)
  <2>1. SessionWorld(u) /\ StaysLate(w, u)
    BY SessionPathEffect
  <2>2. v = [u EXCEPT !.auth = FALSE]
    BY <1>1
  <2> HIDE DEF u
  <2>3. /\ SessionWorld(v) /\ v.proxy = u.proxy /\ v.call = u.call /\ v.auth = FALSE
    BY <2>1, <2>2, AssignmentEffect
  <2>4. QED
    BY <2>1, <2>3 DEF StaysLate, Late
<1>2. ASSUME NEW first \in Queued(w), v = Report(ErrorSlot(w, first), Queued(w) \ {first})
      PROVE  SessionWorld(v) /\ StaysLate(w, v) /\ v.auth = FALSE
  <2> DEFINE u == ErrorSlot(w, first)
  <2>1. first \in Call
    BY ProxyOfCall DEF Queued
  <2>2. SessionWorld(u) /\ StaysLate(w, u) /\ u.auth = FALSE
    <3>1. ErrorSlotTo(w, first, u)
      BY <2>1, ErrorSlotEffect
    <3> HIDE DEF u
    <3>2. QED
      BY <3>1 DEF ErrorSlotTo
  <2>3. v = Report(u, Queued(w) \ {first})
    BY <1>2
  <2> HIDE DEF u
  <2>4. /\ SessionWorld(v) /\ v.proxy = u.proxy /\ v.call = u.call /\ v.auth = u.auth
    BY <2>2, <2>3, ReportEffect
  <2>5. QED
    BY <2>2, <2>4 DEF StaysLate, Late
<1>3. CASE w.proxy[Main].connected /\ ~Connected(w)
  <2>1. v \in AuthenticatedInVain(w)
    BY <1>3 DEF Authenticated
  <2>2. \/ v = [SetObjectPath(w, "dead") EXCEPT !.auth = FALSE]
        \/ \E first \in Queued(w) : v = Report(ErrorSlot(w, first), Queued(w) \ {first})
    BY <2>1 DEF AuthenticatedInVain
  <2>3. QED
    BY <1>1, <1>2, <1>3, <2>2
<1>4. CASE ~(w.proxy[Main].connected /\ ~Connected(w))
  <2>1. v = [SetObjectPath(w, "live") EXCEPT !.auth = FALSE]
    BY <1>4 DEF Authenticated
  <2>2. QED
    BY <1>1, <1>4, <2>1
<1>5. QED
  BY <1>3, <1>4

LEMMA RequeuedEffect ==
  ASSUME NEW w, SessionWorld(w), NEW c \in Call, c \in Own => MayRegister(w),
         w.call[c].state = "sent"
  PROVE  LET u == Enqueue(w, c)
             v == Requeued(w, c)
         IN /\ SessionWorld(v) /\ StaysLate(w, v)
            /\ v.processCall = w.processCall /\ v.reports = w.reports
            /\ v.proxy[Main].path = w.proxy[Main].path
            /\ Added(w, u, c) /\ SessionWorld(u) /\ u.auth = w.auth
            /\ c \in Own => MayRegister(u)
            /\ v = IF c \in Own /\ NeedsPath(u, c) THEN Register(u) ELSE u
<1> DEFINE u == Enqueue(w, c)
           v == Requeued(w, c)
<1>1. v = IF c \in Own /\ NeedsPath(u, c) THEN Register(u) ELSE u
  BY DEF Requeued
<1>2. Added(w, u, c)
  BY EnqueueEffect DEF SessionWorld
<1> HIDE DEF u, v
<1>3. /\ SessionWorld(u) /\ StaysLate(w, u)
      /\ u.auth = w.auth /\ u.processCall = w.processCall /\ u.reports = w.reports
      /\ u.proxy[Main].path = w.proxy[Main].path
      /\ c \in Own => MayRegister(u)
  <2>1. CASE c \in Own
    BY <1>2, <2>1, AddedToSession
  <2>2. CASE c \notin Own
    <3>1. c \in Reg
      BY <2>2 DEF Call
    <3>2. /\ u.auth = w.auth /\ u.processCall = w.processCall /\ u.reports = w.reports
          /\ {"auth", "processCall", "reports"} \subseteq DOMAIN u
      BY <1>2 DEF Added, Same, SessionWorld
    <3>3. \A r \in Reg : /\ (u.call[r].state = "none") = (w.call[r].state = "none")
                         /\ (u.proxy[r].status = "none") = (w.proxy[r].status = "none")
      BY <1>2, ProxyOfCall DEF Added
    <3>4. SessionWorld(u)
      BY <1>2, <3>2, <3>3 DEF Added, SessionWorld
    <3>5. StaysLate(w, u) /\ u.proxy[Main].path = w.proxy[Main].path
      BY <1>2, ProxyOfCall DEF Added, StaysLate
    <3>6. QED
      BY <2>2, <3>2, <3>4, <3>5
  <2>3. QED
    BY <2>1, <2>2
<1>4. c \in Own =>
        /\ SessionWorld(Register(u)) /\ StaysLate(u, Register(u))
        /\ Register(u).proxy[Main].path = u.proxy[Main].path
        /\ Register(u).processCall = u.processCall /\ Register(u).reports = u.reports
  BY <1>3, RegisterEffect
<1>5. c \in Own => StaysLate(w, Register(u))
  BY <1>3, <1>4 DEF StaysLate
<1>6. QED
  BY <1>1, <1>2, <1>3, <1>4, <1>5 DEF u, v

-----------------------------------------------------------------------------
\* A session while the daemon stays

OrderlyConnection(w) ==
  /\ w.manager.connection \in {"none", "peer", "bus"} /\ ~w.manager.lost
  /\ w.manager.activation # "none" =>
       w.manager.connection = "none" /\ w.manager.service = "activating"

OrderlyProxies(w) ==
  /\ \A p \in Proxy : w.proxy[p].status # "none" =>
       /\ w.proxy[p].connected = (w.manager.connection # "none")
       /\ w.proxy[p].status = IF w.proxy[p].connected /\ w.proxy[p].path # "none"
                                THEN "Ready" ELSE "Incomplete"
  /\ \A r \in Reg : w.proxy[r].status # "none" => w.proxy[r].path = "daemon"
  /\ w.proxy[Main].path \in {"none", "live", "dead"}
  /\ w.proxy[Main].path # "none" => w.manager.connection # "none"

OrderlyCalls(w) ==
  \A c \in Call :
    /\ w.call[c].state # "failing"
    /\ w.call[c].state = "queued" => w.proxy[ProxyOf(c)].status = "Incomplete"
    /\ w.call[c].state = "sent" => w.manager.connection # "none" /\ w.call[c].tried

\* One at a time, and only for a session that has no object
OrderlyRegistrations(w) ==
  /\ \A r \in Reg :
       /\ (w.call[r].state = "none") = (w.proxy[r].status = "none")
       /\ w.call[r].state # "none" =>
            /\ w.proxy[Main].path = "none"
            /\ w.call[r].state \in {"queued", "sent"}
            /\ w.call[r].answers \subseteq {"success", "error"}
  /\ \A r, s \in Reg : w.call[r].state # "none" /\ w.call[s].state # "none" => r = s

\* What was sent to an object that has gone comes back, before another is asked for.
OrderlyAnswers(w) ==
  \A c \in Own : w.call[c].state = "sent" =>
    /\ w.proxy[Main].path = "none" => w.call[c].destroyed /\ w.call[c].answers = {"UnknownObject"}
    /\ w.proxy[Main].path = "live" =>
         ~w.call[c].destroyed /\ w.call[c].answers = {"success", "error"}
    /\ w.proxy[Main].path = "dead" =>
         ~w.call[c].destroyed /\ w.call[c].answers \subseteq {"success", "error", "UnknownObject"}

Orderly(w) ==
  /\ OrderlyConnection(w) /\ OrderlyProxies(w) /\ OrderlyCalls(w)
  /\ OrderlyRegistrations(w) /\ OrderlyAnswers(w)

RegistrationsKnown(w) == \A r \in Reg : w.call[r].state # "none" => w.auth

OrderlyReports(w) ==
  /\ \A c \in Own \ CancelCall : w.reports[c] = IF w.call[c].state = "done" THEN 1 ELSE 0
  /\ w.processCall # None => w.call[w.processCall].state \in {"queued", "sent"}

\* The proxies, the manager and the calls are all that Orderly speaks of.
LEMMA OrderlySame ==
  ASSUME NEW w, Orderly(w), NEW v,
         v.manager = w.manager, v.proxy = w.proxy, v.call = w.call
  PROVE  Orderly(v)
BY DEF Orderly, OrderlyConnection, OrderlyProxies, OrderlyCalls, OrderlyRegistrations,
       OrderlyAnswers

LEMMA OrderlyConnected ==
  ASSUME NEW w, Orderly(w)
  PROVE  Connected(w) = (w.manager.connection # "none")
BY DEF Orderly, OrderlyConnection, Connected

\* A connection is made while the session has no object.
LEMMA JoinedOrderly ==
  ASSUME NEW w, IsWorld(w), Orderly(w), w.manager.connection = "none",
         w.manager.activation = "none", NEW k \in {"peer", "bus"}
  PROVE  LET v == EmitConnected(Joined(w, k)) IN
         Orderly(v) /\ \A c \in Own : v.call[c] = w.call[c]
<1> DEFINE u == Joined(w, k)
           v == EmitConnected(u)
           m == [w.manager EXCEPT !.connection = k]
<1>1. /\ m \in ManagerType /\ m.connection = k /\ m.lost = w.manager.lost
      /\ m.activation = w.manager.activation /\ m.service = w.manager.service
  BY DEF IsWorld, ManagerType
<1>2. u = [w EXCEPT !.manager = m]
  BY DEF Joined
<1> HIDE DEF u, m
<1>3. /\ IsWorld(u) /\ u.manager = m /\ u.proxy = w.proxy /\ u.call = w.call
  BY <1>1, <1>2, SetManager
<1>4. Connected(u)
  BY <1>1, <1>3 DEF Connected
<1> HIDE DEF v
<1>5. /\ IsWorld(v) /\ Kept(u, v) /\ v.manager = m
      /\ \A p \in Proxy : w.proxy[p].status # "none" =>
           /\ v.proxy[p].connected
           /\ v.proxy[p].status = IF w.proxy[p].path = "none" THEN "Incomplete" ELSE "Ready"
      /\ \A c \in Call :
           LET p == ProxyOf(c) IN
           /\ w.call[c].state = "queued" /\ w.proxy[p].status # "none"
                /\ w.proxy[p].path # "none" => v.call[c] = Sent(u, p)
           /\ w.call[c].state = "sent" /\ w.proxy[p].status = "Ready" =>
                v.call[c] = [w.call[c] EXCEPT !.destroyed = TRUE]
           /\ \/ w.call[c].state = "sent" /\ w.proxy[p].status = "Ready"
              \/ w.call[c].state = "queued" /\ w.proxy[p].status # "none"
                   /\ w.proxy[p].path # "none"
              \/ v.call[c] = w.call[c]
  BY <1>3, <1>4, EmitConnectedEffect DEF v
<1>6. \A p \in Proxy :
        /\ (v.proxy[p].status = "none") = (w.proxy[p].status = "none")
        /\ v.proxy[p].path = w.proxy[p].path
  BY <1>3, <1>5 DEF Kept
<1>7. \A c \in Call : (v.call[c].state = "none") = (w.call[c].state = "none")
  BY <1>3, <1>5 DEF Kept
<1>8. w.proxy[Main].path = "none" /\ \A c \in Call : w.call[c].state # "sent"
  BY DEF Orderly, OrderlyProxies, OrderlyCalls
<1>9. \A c \in Own : v.call[c] = w.call[c]
  BY <1>5, <1>8, ProxyOfCall
<1>10. ASSUME NEW r \in Reg, v.call[r].state # "none"
       PROVE  /\ v.call[r].state = "sent" /\ v.call[r].tried
              /\ v.call[r].answers = {"success", "error"}
  <2>1. r \in Call /\ r \in Proxy /\ ProxyOf(r) = r
    BY ProxyOfCall
  <2>2. w.call[r].state = "queued" /\ w.proxy[r].status # "none" /\ w.proxy[r].path = "daemon"
    BY <1>7, <1>8, <1>10, <2>1 DEF Orderly, OrderlyRegistrations, OrderlyProxies
  <2>3. v.call[r] = Sent(u, r)
    BY <1>5, <2>1, <2>2
  <2>4. QED
    BY <1>3, <1>4, <2>2, <2>3, SentCall
<1>11. OrderlyConnection(v)
  BY <1>1, <1>5 DEF Orderly, OrderlyConnection
<1>12. OrderlyProxies(v)
  <2>1. \A p \in Proxy : v.proxy[p] \in ProxyType
    BY <1>5 DEF IsWorld
  <2>2. ASSUME NEW p \in Proxy, v.proxy[p].status # "none"
        PROVE  /\ v.proxy[p].connected = TRUE
               /\ v.proxy[p].status = IF v.proxy[p].path = "none" THEN "Incomplete" ELSE "Ready"
    BY <1>5, <1>6, <2>1, <2>2 DEF ProxyType
  <2>3. v.manager.connection # "none"
    BY <1>1, <1>5
  <2>4. \A r \in Reg : v.proxy[r].status # "none" => v.proxy[r].path = "daemon"
    BY <1>6, ProxyOfCall DEF Orderly, OrderlyProxies
  <2>5. v.proxy[Main].path = "none"
    BY <1>6, <1>8, ProxyOfCall
  <2>6. QED
    BY <2>2, <2>3, <2>4, <2>5 DEF OrderlyProxies
<1>13. OrderlyCalls(v)
  <2>1. ASSUME NEW c \in Own
        PROVE  /\ v.call[c].state \notin {"failing", "sent"}
               /\ v.call[c].state = "queued" => v.proxy[Main].status = "Incomplete"
    BY <1>5, <1>8, <1>9, ProxyOfCall DEF Orderly, OrderlyCalls, IsWorld
  <2>2. ASSUME NEW c \in Reg
        PROVE  /\ v.call[c].state \notin {"failing", "queued"}
               /\ v.call[c].state = "sent" => v.call[c].tried
    BY <1>10
  <2>3. QED
    BY <1>1, <1>5, <2>1, <2>2, ProxyOfCall DEF OrderlyCalls, Call
<1>14. OrderlyRegistrations(v)
  <2>1. \A r \in Reg : (v.call[r].state = "none") = (v.proxy[r].status = "none")
    BY <1>6, <1>7, ProxyOfCall DEF Orderly, OrderlyRegistrations
  <2>2. \A r, s \in Reg : v.call[r].state # "none" /\ v.call[s].state # "none" => r = s
    BY <1>7, ProxyOfCall DEF Orderly, OrderlyRegistrations
  <2>3. QED
    BY <1>6, <1>8, <1>10, <2>1, <2>2, ProxyOfCall DEF OrderlyRegistrations
<1>15. OrderlyAnswers(v)
  BY <1>8, <1>9, ProxyOfCall DEF OrderlyAnswers
<1>16. QED
  BY <1>9, <1>11, <1>12, <1>13, <1>14, <1>15 DEF Orderly, u, v

\* init() of the manager
LEMMA SetupOrderly ==
  ASSUME NEW w, IsWorld(w), Orderly(w), w.manager.connection = "none"
  PROVE  /\ Orderly(Setup(w)) /\ Kept(w, Setup(w))
         /\ \A c \in Own : Setup(w).call[c] = w.call[c]
<1>1. Kept(w, Setup(w))
  BY SetupEffect
<1>2. CASE w.manager.service = "activating"
  BY <1>1, <1>2 DEF Setup
<1>3. CASE w.manager.service # "activating"
  <2>1. w.manager.activation = "none"
    BY <1>3 DEF Orderly, OrderlyConnection
  <2>2. CASE Setup(w) = w
    BY <1>1, <2>2
  <2>3. CASE Setup(w) = Asking(w)
    <3> DEFINE m == [w.manager EXCEPT !.service = "activating", !.activation = "asked"]
    <3>1. /\ m \in ManagerType /\ m.connection = "none" /\ m.lost = w.manager.lost
          /\ m.service = "activating"
      BY DEF IsWorld, ManagerType
    <3>2. Setup(w) = [w EXCEPT !.manager = m]
      BY <2>3 DEF Asking
    <3> HIDE DEF m
    <3> DEFINE v == [w EXCEPT !.manager = m]
    <3>3. v.manager = m /\ v.proxy = w.proxy /\ v.call = w.call
      BY <3>1, SetManager
    <3> HIDE DEF v
    <3>4. OrderlyConnection(v)
      BY <3>1, <3>3 DEF Orderly, OrderlyConnection
    <3>5. /\ OrderlyProxies(v) /\ OrderlyCalls(v) /\ OrderlyRegistrations(v)
          /\ OrderlyAnswers(v)
      BY <3>1, <3>3 DEF Orderly, OrderlyProxies, OrderlyCalls, OrderlyRegistrations,
                       OrderlyAnswers
    <3>6. QED
      BY <1>1, <3>2, <3>3, <3>4, <3>5 DEF Orderly, v
  <2>4. ASSUME NEW k \in {"peer", "bus"}, Setup(w) = EmitConnected(Joined(w, k))
        PROVE  Orderly(Setup(w)) /\ \A c \in Own : Setup(w).call[c] = w.call[c]
    BY <2>1, <2>4, JoinedOrderly
  <2>5. QED
    BY <1>1, <2>2, <2>3, <2>4, SetupEffect
<1>4. QED
  BY <1>2, <1>3


\* A call waits in the queue of a session that has no object.
LEMMA InQueueOrderly ==
  ASSUME NEW w, IsWorld(w), Orderly(w), NEW c \in Own, w.proxy[Main].path = "none"
  PROVE  Orderly(InQueue(w, c))
<1> DEFINE u == InQueue(w, c)
<1>1. /\ u.manager = w.manager /\ u.proxy = w.proxy /\ u.call[c].state = "queued"
      /\ \A d \in Call \ {c} : u.call[d] = w.call[d]
  BY ProxyOfCall, EnqueueEffect
<1> HIDE DEF u
<1>2. w.proxy[Main].status = "Incomplete"
  BY <1>1, ProxyOfCall DEF IsWorld, Orderly, OrderlyProxies
<1>3. OrderlyConnection(u) /\ OrderlyProxies(u)
  BY <1>1 DEF Orderly, OrderlyConnection, OrderlyProxies
<1>4. OrderlyCalls(u)
  BY <1>1, <1>2, ProxyOfCall DEF Orderly, OrderlyCalls
<1>5. OrderlyRegistrations(u)
  <2>1. \A r \in Reg : u.call[r] = w.call[r]
    BY <1>1, ProxyOfCall
  <2>2. QED
    BY <1>1, <2>1 DEF Orderly, OrderlyRegistrations
<1>6. OrderlyAnswers(u)
  BY <1>1, ProxyOfCall DEF Orderly, OrderlyAnswers
<1>7. QED
  BY <1>3, <1>4, <1>5, <1>6 DEF Orderly, u

LEMMA EnqueueOrderly ==
  ASSUME NEW w, IsWorld(w), Orderly(w), NEW c \in Own, w.proxy[Main].path = "none"
  PROVE  LET v == Enqueue(w, c) IN
         /\ Orderly(v) /\ v.call[c].state = "queued"
         /\ \A d \in Own \ {c} : v.call[d] = w.call[d]
<1> DEFINE u == InQueue(w, c)
           v == Enqueue(w, c)
<1>1. /\ IsWorld(u) /\ u.manager = w.manager /\ u.call[c].state = "queued"
      /\ \A d \in Call \ {c} : u.call[d] = w.call[d]
      /\ v = IF w.proxy[Main].connected THEN u ELSE Connect(u)
  BY ProxyOfCall, EnqueueEffect
<1>2. Orderly(u)
  BY InQueueOrderly
<1> HIDE DEF u, v
<1>3. CASE w.proxy[Main].connected
  BY <1>1, <1>2, <1>3, ProxyOfCall DEF v
<1>4. CASE ~w.proxy[Main].connected
  <2>1. w.manager.connection = "none"
    BY <1>4, ProxyOfCall DEF IsWorld, Orderly, OrderlyProxies
  <2>2. v = Setup(u)
    BY <1>1, <1>2, <1>4, <2>1, OrderlyConnected DEF Connect
  <2>3. Orderly(v) /\ \A d \in Own : v.call[d] = u.call[d]
    BY <1>1, <1>2, <2>1, <2>2, SetupOrderly
  <2>4. QED
    BY <1>1, <2>3, ProxyOfCall DEF v
<1>5. QED
  BY <1>3, <1>4

LEMMA QueueCallOrderly ==
  ASSUME NEW w, IsWorld(w), Orderly(w), NEW c \in Own, w.call[c].state = "none"
  PROVE  LET v == QueueCall(w, c) IN
         /\ Orderly(v) /\ v.call[c].state \in {"queued", "sent"}
         /\ v.call[c].state = "queued" => w.proxy[Main].path = "none"
         /\ \A d \in Own \ {c} : v.call[d] = w.call[d]
<1> DEFINE v == QueueCall(w, c)
<1>1. c \in Call /\ ProxyOf(c) = Main /\ c \notin Reg
  BY ProxyOfCall
<1>2. w.proxy[Main].status = IF w.proxy[Main].path # "none" THEN "Ready" ELSE "Incomplete"
  BY ProxyOfCall DEF IsWorld, Orderly, OrderlyProxies
<1>3. CASE w.proxy[Main].path # "none"
  <2>1. /\ v.manager = w.manager /\ v.proxy = w.proxy /\ v.call[c] = Sent(w, Main)
        /\ \A d \in Call \ {c} : v.call[d] = w.call[d]
    BY <1>1, <1>2, <1>3, QueueCallEffect
  <2> HIDE DEF v
  <2>2. Connected(w) /\ w.manager.connection # "none"
    BY <1>3, OrderlyConnected DEF Orderly, OrderlyProxies
  <2>3. /\ v.call[c].state = "sent" /\ v.call[c].tried /\ ~v.call[c].destroyed
        /\ v.call[c].answers =
             IF w.proxy[Main].path = "dead" THEN {"UnknownObject"} ELSE {"success", "error"}
    BY <2>1, <2>2, SentCall
  <2>4. OrderlyConnection(v) /\ OrderlyProxies(v)
    BY <2>1 DEF Orderly, OrderlyConnection, OrderlyProxies
  <2>5. OrderlyCalls(v)
    BY <2>1, <2>2, <2>3 DEF Orderly, OrderlyCalls
  <2>6. OrderlyRegistrations(v)
    <3>1. \A r \in Reg : v.call[r] = w.call[r]
      BY <1>1, <2>1, ProxyOfCall
    <3>2. QED
      BY <2>1, <3>1 DEF Orderly, OrderlyRegistrations
  <2>7. OrderlyAnswers(v)
    BY <1>3, <2>1, <2>3, ProxyOfCall DEF Orderly, OrderlyAnswers
  <2>8. QED
    BY <2>1, <2>3, <2>4, <2>5, <2>6, <2>7, ProxyOfCall DEF Orderly, v
<1>4. CASE w.proxy[Main].path = "none"
  <2>1. v = Enqueue(w, c)
    BY <1>1, <1>2, <1>4, QueueCallEffect
  <2>2. QED
    BY <1>4, <2>1, EnqueueOrderly
<1>5. QED
  BY <1>3, <1>4

\* A registration is made, for a session that has no object and has not asked for one.
LEMMA RegisterOrderly ==
  ASSUME NEW w, SessionWorld(w), MayRegister(w), Orderly(w), RegistrationsKnown(w),
         w.proxy[Main].path = "none"
  PROVE  LET v == Register(w) IN
         /\ Orderly(v) /\ RegistrationsKnown(v)
         /\ \A c \in Own : v.call[c] = w.call[c]
<1> DEFINE v == Register(w)
           r == NewRegistration(w)
           g == Registering(w)
<1>1. CASE w.auth
  <2>1. v = w
    BY <1>1, RegisterEffect
  <2>2. QED
    BY <2>1
<1>2. CASE ~w.auth
  <2>1. r \in Reg /\ v = QueueRegistration(g, r) /\ SessionWorld(v) /\ v.auth
    BY <1>2, RegisterEffect
  <2>2. \A s \in Reg : w.call[s].state = "none" /\ w.proxy[s].status = "none"
    BY <1>2 DEF RegistrationsKnown, Orderly, OrderlyRegistrations
  <2>3. /\ IsWorld(g) /\ g.manager = w.manager /\ g.proxy = w.proxy /\ g.call = w.call
    BY RegisteringEffect
  <2>4. g.call[r].state # "sent"
    BY <2>1, <2>2, <2>3
  <2> HIDE DEF g, r, v
  <2> DEFINE x == WithProxy(g, r)
  <2>5. /\ IsWorld(x) /\ x.manager = w.manager /\ x.call = w.call
        /\ x.proxy[r] = [connected |-> Connected(g), path |-> "daemon",
                         status |-> IF Connected(g) THEN "Ready" ELSE "Incomplete"]
        /\ \A p \in Proxy \ {r} : x.proxy[p] = w.proxy[p]
        /\ v = QueueCall(x, r)
    BY <2>1, <2>3, <2>4, QueueRegistrationEffect
  <2> HIDE DEF x
  <2>6. r \in Call /\ r \in Proxy /\ ProxyOf(r) = r /\ r # Main /\ r \notin Own
    BY <2>1, ProxyOfCall
  <2>7. Connected(g) = (w.manager.connection # "none")
    BY <2>3, OrderlyConnected DEF Connected
  <2>8. OrderlyProxies(x) /\ x.proxy[Main] = w.proxy[Main]
    <3>1. ASSUME NEW p \in Proxy, x.proxy[p].status # "none"
          PROVE  /\ x.proxy[p].connected = (x.manager.connection # "none")
                 /\ x.proxy[p].status = IF x.proxy[p].connected /\ x.proxy[p].path # "none"
                                          THEN "Ready" ELSE "Incomplete"
      BY <2>5, <2>7, <3>1 DEF Orderly, OrderlyProxies
    <3>2. \A s \in Reg : x.proxy[s].status # "none" => x.proxy[s].path = "daemon"
      BY <2>5, ProxyOfCall DEF Orderly, OrderlyProxies
    <3>3. x.proxy[Main] = w.proxy[Main]
      BY <2>5, <2>6, ProxyOfCall
    <3>4. QED
      BY <2>5, <3>1, <3>2, <3>3 DEF Orderly, OrderlyProxies
  \* What is left, once the call has been made
  <2>9. ASSUME NEW y, IsWorld(y), y.manager = x.manager, y.proxy = x.proxy,
               \A d \in Call \ {r} : y.call[d] = x.call[d],
               \/ /\ Connected(g)
                  /\ y.call[r].state = "sent" /\ y.call[r].tried
                  /\ y.call[r].answers = {"success", "error"}
               \/ ~Connected(g) /\ y.call[r].state = "queued"
        PROVE  Orderly(y) /\ \A c \in Own : y.call[c] = w.call[c]
    <3>1. \A d \in Call \ {r} : y.call[d] = w.call[d]
      BY <2>5, <2>9
    <3>2. \A c \in Own : y.call[c] = w.call[c]
      BY <2>6, <3>1, ProxyOfCall
    <3>3. OrderlyConnection(y) /\ OrderlyProxies(y)
      BY <2>5, <2>8, <2>9 DEF Orderly, OrderlyConnection, OrderlyProxies
    <3>4. OrderlyCalls(y)
      <4>1. ASSUME NEW c \in Own
            PROVE  /\ y.call[c].state # "failing"
                   /\ y.call[c].state = "queued" => y.proxy[Main].status = "Incomplete"
                   /\ y.call[c].state = "sent" =>
                        y.manager.connection # "none" /\ y.call[c].tried
        BY <2>5, <2>8, <2>9, <3>2, ProxyOfCall DEF Orderly, OrderlyCalls
      <4>2. ASSUME NEW s \in Reg, s # r
            PROVE  y.call[s].state = "none"
        BY <2>2, <3>1, <4>2, ProxyOfCall
      <4>3. /\ y.call[r].state # "failing"
            /\ y.call[r].state = "queued" => y.proxy[r].status = "Incomplete"
            /\ y.call[r].state = "sent" =>
                 y.manager.connection # "none" /\ y.call[r].tried
        <5>1. x.proxy[r].status = IF Connected(g) THEN "Ready" ELSE "Incomplete"
          BY <2>5
        <5>2. y.call[r].state = "sent" => Connected(g) /\ y.call[r].tried
          BY <2>9
        <5>3. y.call[r].state = "queued" => ~Connected(g)
          BY <2>9
        <5>4. y.call[r].state \in {"queued", "sent"}
          BY <2>9
        <5>5. y.manager.connection = w.manager.connection /\ y.proxy[r] = x.proxy[r]
          BY <2>5, <2>9
        <5>6. QED
          BY <2>7, <5>1, <5>2, <5>3, <5>4, <5>5
      <4>4. QED
        BY <2>6, <4>1, <4>2, <4>3, ProxyOfCall DEF OrderlyCalls, Call
    <3>5. OrderlyRegistrations(y)
      <4>1. \A s \in Reg \ {r} : y.call[s].state = "none" /\ y.proxy[s].status = "none"
        BY <2>2, <2>5, <2>9, <3>1, ProxyOfCall
      <4>2. y.call[r].state # "none" /\ y.proxy[r].status # "none" /\ y.proxy[Main].path = "none"
        BY <2>5, <2>8, <2>9
      <4>3. y.call[r].state = "queued" => y.call[r].answers = {}
        BY <2>6 , <2>9 DEF IsWorld
      <4>4. y.call[r].state \in {"queued", "sent"}
              /\ y.call[r].answers \subseteq {"success", "error"}
        BY <2>9, <4>3
      <4>5. QED
        BY <2>1, <4>1, <4>2, <4>4 DEF OrderlyRegistrations
    <3>6. OrderlyAnswers(y)
      BY <2>5, <2>8, <2>9, <3>2 DEF Orderly, OrderlyAnswers
    <3>7. QED
      BY <3>2, <3>3, <3>4, <3>5, <3>6 DEF Orderly
  <2>10. Orderly(v) /\ \A c \in Own : v.call[c] = w.call[c]
    <3>1. CASE Connected(g)
      <4>1. x.proxy[ProxyOf(r)].status = "Ready" /\ x.call[r].state # "sent"
        BY <2>1, <2>2, <2>5, <2>6, <3>1
      <4>2. /\ Added(x, v, r)
            /\ v.manager = x.manager /\ v.proxy = x.proxy /\ v.call[r] = Sent(x, r)
            /\ \A d \in Call \ {r} : v.call[d] = x.call[d]
        BY <2>5, <2>6, <4>1, QueueCallEffect
      <4>3. Connected(x) /\ x.proxy[r].path = "daemon"
        BY <2>3, <2>5, <3>1 DEF Connected
      <4>4. /\ v.call[r].state = "sent" /\ v.call[r].tried
            /\ v.call[r].answers = {"success", "error"}
        BY <4>2, <4>3, SentCall
      <4>5. QED
        BY <2>9, <3>1, <4>2, <4>4 DEF Added
    <3>2. CASE ~Connected(g)
      <4> DEFINE q == InQueue(x, r)
      <4>1. x.proxy[r].status = "Incomplete" /\ ~x.proxy[r].connected /\ x.call[r].state # "sent"
        BY <2>1, <2>2, <2>5, <3>2
      <4>2. v = Enqueue(x, r)
        BY <2>5, <2>6, <4>1, QueueCallEffect
      <4>3. /\ IsWorld(q) /\ q.manager = x.manager /\ q.proxy = x.proxy
            /\ q.call[r].state = "queued"
            /\ \A d \in Call \ {r} : q.call[d] = x.call[d]
            /\ v = Connect(q)
        BY <2>5, <2>6, <4>1, <4>2, EnqueueEffect
      <4> HIDE DEF q
      <4>4. Orderly(q) /\ \A c \in Own : q.call[c] = w.call[c]
        BY <2>9, <3>2, <4>3
      <4>5. q.manager.connection = "none" /\ ~Connected(q)
        BY <2>5, <2>7, <3>2, <4>3 DEF Connected
      <4>6. v = Setup(q)
        BY <4>3, <4>5 DEF Connect
      <4>7. QED
        BY <4>3, <4>4, <4>5, <4>6, SetupOrderly
    <3>3. QED
      BY <3>1, <3>2
  <2>11. QED
    BY <2>1, <2>10 DEF RegistrationsKnown, v
<1>3. QED
  BY <1>1, <1>2 DEF SessionWorld


-----------------------------------------------------------------------------
\* The invariant of a session

\* Whatever ends
SessionAlways ==
  /\ SessionTypeOK /\ RegistrationUnderway
  /\ proxy[Main].status # "none"
  /\ \A r \in Reg : (call[r].state = "none") = (proxy[r].status = "none")
  /\ gone =>
       /\ proxy[Main].path = "dead"
       /\ \A c \in Own : call[c].state = "sent" =>
            call[c].answers \ {"success", "error"} # {}

\* As long as the daemon stays
SessionOrderly ==
  /\ Orderly(World) /\ RegistrationsKnown(World) /\ OrderlyReports(World)
  /\ (proxy[Main].path = "dead") = gone

\* As long as no call is refused, besides
ProcessOrderly ==
  /\ \A c \in ProcessCall \ givenUp : Open(c) => processCall = c
  /\ \A c \in givenUp : call[c].state # "none" /\ (processCall # None => ~Open(c))

SessionIInv ==
  /\ SessionAlways
  /\ Without({"ends"}) => SessionOrderly
  /\ Without({"ends", "refused", "again"}) => ProcessOrderly

-----------------------------------------------------------------------------
\* SessionAlways is kept by every step.

LEMMA WorldOfSession ==
  ASSUME SessionAlways
  PROVE  /\ SessionWorld(World)
         /\ World.manager = manager /\ World.proxy = proxy /\ World.call = call
         /\ World.auth = auth /\ World.processCall = processCall /\ World.reports = reports
         /\ gone => proxy[Main].path = "dead" /\ Late(World)
<1>1. /\ World.manager = manager /\ World.proxy = proxy /\ World.call = call
      /\ World.auth = auth /\ World.processCall = processCall /\ World.reports = reports
      /\ {"manager", "proxy", "call", "auth", "processCall", "reports"} \subseteq DOMAIN World
  BY DEF World
<1>2. IsWorld(World)
  BY <1>1 DEF SessionAlways, SessionTypeOK, IsWorld
<1>3. SessionWorld(World)
  BY <1>1, <1>2 DEF SessionAlways, SessionTypeOK, RegistrationUnderway, SessionWorld
<1>4. gone => proxy[Main].path = "dead" /\ Late(World)
  BY <1>1 DEF SessionAlways, Late
<1>5. QED
  BY <1>1, <1>3, <1>4

LEMMA SessionWorldIsTyped ==
  ASSUME SessionAlways, UNCHANGED interference, givenUp' \subseteq ProcessCall,
         NEW w, SessionWorld(w),
         manager' = w.manager, proxy' = w.proxy, call' = w.call,
         auth' = w.auth, processCall' = w.processCall, reports' = w.reports,
         gone' \in BOOLEAN, gone' => w.proxy[Main].path = "dead" /\ Late(w)
  PROVE  SessionAlways'
<1>1. \A c \in Call : w.call[c].state = "failing" => w.proxy[ProxyOf(c)].status # "none"
  <2> SUFFICES ASSUME NEW c \in Call, w.call[c].state = "failing"
               PROVE  w.proxy[ProxyOf(c)].status # "none"
    OBVIOUS
  <2>1. CASE c \in Reg
    BY <2>1, ProxyOfCall DEF SessionWorld
  <2>2. CASE c \in Own
    BY <2>2, ProxyOfCall DEF SessionWorld, IsWorld
  <2>3. QED
    BY <2>1, <2>2 DEF Call
<1>2. SessionTypeOK'
  BY <1>1 DEF SessionAlways, SessionTypeOK, SessionWorld, IsWorld
<1>3. RegistrationUnderway'
  BY DEF SessionWorld, RegistrationUnderway
<1>4. gone' => \A c \in Own : call'[c].state = "sent" =>
                 call'[c].answers \ {"success", "error"} # {}
  BY DEF Late
<1>5. proxy'[Main].status # "none"
        /\ \A r \in Reg : (call'[r].state = "none") = (proxy'[r].status = "none")
  BY DEF SessionWorld, IsWorld
<1>6. QED
  BY <1>2, <1>3, <1>4, <1>5 DEF SessionAlways

LEMMA BecomeIsTyped ==
  ASSUME SessionAlways, UNCHANGED interference, givenUp' \subseteq ProcessCall,
         NEW w, SessionWorld(w), StaysLate(World, w), Become(w)
  PROVE  SessionAlways'
<1>1. gone \in BOOLEAN /\ (gone => Late(World))
  BY WorldOfSession DEF SessionAlways, SessionTypeOK
<1>2. gone' \in BOOLEAN /\ (gone' => w.proxy[Main].path = "dead" /\ Late(w))
  BY <1>1 DEF Become, StaysLate
<1>3. /\ manager' = w.manager /\ proxy' = w.proxy /\ call' = w.call
      /\ auth' = w.auth /\ processCall' = w.processCall /\ reports' = w.reports
  BY DEF Become
<1>4. QED
  BY <1>2, <1>3, SessionWorldIsTyped

LEMMA SessionSetsOfCalls ==
  /\ ProcessCall \subseteq Own /\ CancelCall \subseteq Own /\ None \notin Own
  /\ Reg # {}
BY SessionAssumption, ProxyAssumption

LEMMA CallsAreTyped ==
  ASSUME SessionAlways, UNCHANGED interference, NEW c \in Own,
         \/ c \in ProcessCall /\ Process(c)
         \/ c \notin ProcessCall /\ Request(c)
         \/ c \in CancelCall /\ Cancel(c)
  PROVE  SessionAlways'
<1> DEFINE v == Send(World, c)
<1>1. SessionWorld(World) /\ call[c].state = "none" /\ RegFree /\ World.call = call
  BY WorldOfSession DEF Process, Request, Cancel
<1>2. MayRegister(World)
  BY <1>1, WorldOfSession DEF RegFree, MayRegister
<1>3. SessionWorld(v) /\ StaysLate(World, v)
  BY <1>1, <1>2, SendEffect
<1> HIDE DEF v
<1>4. ASSUME NEW p \in ProcessCall \cup {None}
      PROVE  /\ SessionWorld([v EXCEPT !.processCall = p])
             /\ StaysLate(World, [v EXCEPT !.processCall = p])
  <2>1. /\ SessionWorld([v EXCEPT !.processCall = p])
        /\ [v EXCEPT !.processCall = p].proxy = v.proxy
        /\ [v EXCEPT !.processCall = p].call = v.call
    BY <1>3, AssignmentEffect
  <2>2. QED
    BY <1>3, <2>1 DEF StaysLate, Late
<1>5. givenUp \subseteq ProcessCall /\ processCall \in ProcessCall \cup {None}
  BY DEF SessionAlways, SessionTypeOK
<1>6. CASE c \in ProcessCall /\ Process(c)
  <2>1. Become([v EXCEPT !.processCall = c]) /\ givenUp' = givenUp
    BY <1>6 DEF Process, v
  <2>2. QED
    BY <1>4, <1>5, <1>6, <2>1, BecomeIsTyped
<1>7. CASE c \notin ProcessCall /\ Request(c)
  <2>1. Become(v) /\ givenUp' = givenUp
    BY <1>7 DEF Request, v
  <2>2. QED
    BY <1>3, <1>5, <2>1, BecomeIsTyped
<1>8. CASE c \in CancelCall /\ Cancel(c)
  <2>1. /\ Become([v EXCEPT !.processCall = None])
        /\ givenUp' = givenUp \cup ({processCall} \ {None})
    BY <1>8 DEF Cancel, v
  <2>2. QED
    BY <1>4, <1>5, <2>1, BecomeIsTyped
<1>9. QED
  BY <1>6, <1>7, <1>8

\* The world after cancel() of a call that was never sent
Withdrawn(w) ==
  IF w.call[w.processCall].state = "queued" THEN Finished(w, w.processCall) ELSE w

LEMMA WithdrawIsTyped ==
  ASSUME SessionAlways, UNCHANGED interference, Withdraw
  PROVE  SessionAlways'
<1> DEFINE u == Withdrawn(World)
           v == Report(u, {processCall})
<1>1. SessionWorld(World) /\ World.processCall = processCall /\ World.call = call
  BY WorldOfSession
<1>2. processCall \in ProcessCall /\ processCall \in Own /\ processCall \in Call
        /\ processCall \notin Reg
  BY <1>1, SessionSetsOfCalls, ProxyOfCall DEF Withdraw, Canceled, SessionWorld
<1>3. SessionWorld(u) /\ StaysLate(World, u)
  <2>1. CASE call[processCall].state = "queued"
    BY <1>1, <1>2, <2>1, FinishedEffect DEF Withdrawn
  <2>2. CASE call[processCall].state # "queued"
    BY <1>1, <2>2 DEF Withdrawn, StaysLate
  <2>3. QED
    BY <2>1, <2>2
<1>4. Become([v EXCEPT !.processCall = None]) /\ givenUp' = givenUp \cup {processCall}
  BY <1>1 DEF Withdraw, Withdrawn
<1> HIDE DEF u
<1>5. SessionWorld(v) /\ v.proxy = u.proxy /\ v.call = u.call
  BY <1>3, ReportEffect
<1> HIDE DEF v
<1>6. /\ SessionWorld([v EXCEPT !.processCall = None])
      /\ [v EXCEPT !.processCall = None].proxy = v.proxy
      /\ [v EXCEPT !.processCall = None].call = v.call
  BY <1>5, AssignmentEffect
<1>7. StaysLate(World, [v EXCEPT !.processCall = None])
  BY <1>3, <1>5, <1>6 DEF StaysLate, Late
<1>8. givenUp' \subseteq ProcessCall
  BY <1>2, <1>4 DEF SessionAlways, SessionTypeOK
<1>9. QED
  BY <1>4, <1>6, <1>7, <1>8, BecomeIsTyped

LEMMA FinishedErrorIsTyped ==
  ASSUME SessionAlways, UNCHANGED <<interference, givenUp>>, NEW c \in Call,
         Become(Finished(ErrorSlot(World, c), c))
  PROVE  SessionAlways'
<1> DEFINE u == ErrorSlot(World, c)
<1>1. SessionWorld(u) /\ StaysLate(World, u) /\ u.auth = FALSE
  <2>1. ErrorSlotTo(World, c, u)
    BY WorldOfSession, ErrorSlotEffect
  <2> HIDE DEF u
  <2>2. QED
    BY <2>1 DEF ErrorSlotTo
<1>2. Become(Finished(u, c))
  OBVIOUS
<1> HIDE DEF u
<1>3. /\ SessionWorld(Finished(u, c)) /\ StaysLate(u, Finished(u, c))
      /\ Finished(u, c).proxy[Main] = u.proxy[Main]
  BY <1>1, FinishedEffect, ProxyOfCall
<1>4. StaysLate(World, Finished(u, c))
  BY <1>1, <1>3 DEF StaysLate
<1>5. QED
  BY <1>2, <1>3, <1>4, BecomeIsTyped DEF SessionAlways, SessionTypeOK

LEMMA SucceededEffect ==
  ASSUME NEW w, SessionWorld(w), NEW c \in Own
  PROVE  LET v == Succeeded(w, c) IN
         /\ SessionWorld(v)
         /\ v.manager = w.manager /\ v.proxy = w.proxy /\ v.call = w.call /\ v.auth = w.auth
         /\ v.processCall = IF c \in ProcessCall THEN None ELSE w.processCall
         /\ \A d \in Own : v.reports[d] =
              IF d = c /\ c \notin CancelCall THEN w.reports[d] + 1 ELSE w.reports[d]
<1> DEFINE p == IF c \in ProcessCall THEN None ELSE w.processCall
           u == [w EXCEPT !.processCall = p]
           v == Succeeded(w, c)
<1>1. p \in ProcessCall \cup {None}
  BY DEF SessionWorld
<1>2. v = IF c \in CancelCall THEN u ELSE Report(u, {c})
  BY DEF Succeeded
<1> HIDE DEF v, p
<1>3. /\ SessionWorld(u)
      /\ u.manager = w.manager /\ u.proxy = w.proxy /\ u.call = w.call
      /\ u.auth = w.auth /\ u.processCall = p /\ u.reports = w.reports
  BY <1>1, AssignmentEffect
<1> HIDE DEF u
<1>4. LET x == Report(u, {c}) IN
      /\ SessionWorld(x)
      /\ x.manager = u.manager /\ x.proxy = u.proxy /\ x.call = u.call
      /\ x.auth = u.auth /\ x.processCall = u.processCall
      /\ \A d \in Own : x.reports[d] = IF d \in {c} THEN u.reports[d] + 1 ELSE u.reports[d]
  BY <1>3, ReportEffect
<1>5. QED
  BY <1>2, <1>3, <1>4 DEF v, p

LEMMA SessionReplyIsTyped ==
  ASSUME SessionAlways, UNCHANGED interference,
         NEW c \in Call, NEW answer \in Answer, SessionReply(c, answer)
  PROVE  SessionAlways'
<1>1. SessionWorld(World) /\ World.call = call /\ call[c].state = "sent"
  BY WorldOfSession DEF SessionReply, MayAnswer
<1>2. UNCHANGED givenUp /\ givenUp \subseteq ProcessCall
  BY DEF SessionReply, SessionAlways, SessionTypeOK
<1>3. ASSUME c \in Own => RegFree, Become(Requeued(World, c))
      PROVE  SessionAlways'
  <2>1. c \in Own => MayRegister(World)
    BY <1>3, WorldOfSession DEF RegFree, MayRegister
  <2>2. SessionWorld(Requeued(World, c)) /\ StaysLate(World, Requeued(World, c))
    BY <1>1, <2>1, RequeuedEffect
  <2>3. QED
    BY <1>2, <1>3, <2>2, BecomeIsTyped
<1>4. ASSUME Become(Finished(ErrorSlot(World, c), c))
      PROVE  SessionAlways'
  BY <1>2, <1>4, FinishedErrorIsTyped
<1>5. ASSUME c \in Own, Become(Finished(Succeeded(World, c), c))
      PROVE  SessionAlways'
  <2> DEFINE u == Succeeded(World, c)
  <2>1. SessionWorld(u) /\ u.proxy = World.proxy /\ u.call = World.call
    BY <1>1, <1>5, SucceededEffect
  <2>2. Become(Finished(u, c)) /\ c \notin Reg
    BY <1>5, ProxyOfCall
  <2> HIDE DEF u
  <2>3. /\ SessionWorld(Finished(u, c)) /\ StaysLate(u, Finished(u, c))
    BY <2>1, <2>2, FinishedEffect
  <2>4. StaysLate(World, Finished(u, c))
    BY <2>1, <2>3 DEF StaysLate, Late
  <2>5. QED
    BY <1>2, <2>2, <2>3, <2>4, BecomeIsTyped
<1>6. ASSUME c \in Reg, NEW u \in Authenticated(World), Become(Finished(u, c))
      PROVE  SessionAlways'
  <2>1. SessionWorld(u) /\ StaysLate(World, u) /\ u.auth = FALSE
    BY <1>1, AuthenticatedEffect
  <2>2. /\ SessionWorld(Finished(u, c)) /\ StaysLate(u, Finished(u, c))
        /\ Finished(u, c).proxy[Main] = u.proxy[Main]
    BY <1>6, <2>1, FinishedEffect, ProxyOfCall
  <2>3. StaysLate(World, Finished(u, c))
    BY <2>1, <2>2 DEF StaysLate
  <2>4. QED
    BY <1>2, <1>6, <2>2, <2>3, BecomeIsTyped
<1>7. QED
  BY <1>3, <1>4, <1>5, <1>6 DEF SessionReply

\* What an end makes of the calls
LostTo(calls, C, A, v) ==
  /\ v \in [Call -> CallType]
  /\ \A c \in Call :
       /\ v[c].state = calls[c].state /\ v[c].tried = calls[c].tried
       /\ v[c].destroyed = calls[c].destroyed
       /\ v[c].answers =
            IF c \in C /\ calls[c].state = "sent" /\ calls[c].answers # {"Disconnected"}
              THEN calls[c].answers \cup A ELSE calls[c].answers
       /\ (v[c].state = "sent") = (v[c].answers # {})

LEMMA LostEffect ==
  ASSUME NEW calls \in [Call -> CallType], NEW C, NEW A \in SUBSET Answer, A # {},
         \A c \in Call : (calls[c].state = "sent") = (calls[c].answers # {})
  PROVE  LostTo(calls, C, A, Lost(calls, C, A))
<1> DEFINE v == Lost(calls, C, A)
<1>1. v = [c \in Call |->
             IF c \in C /\ calls[c].state = "sent" /\ calls[c].answers # {"Disconnected"}
               THEN [calls[c] EXCEPT !.answers = @ \cup A] ELSE calls[c]]
  BY DEF Lost
<1> HIDE DEF v
<1>2. \A c \in Call :
        /\ v[c] \in CallType
        /\ v[c].state = calls[c].state /\ v[c].tried = calls[c].tried
        /\ v[c].destroyed = calls[c].destroyed
        /\ v[c].answers =
             IF c \in C /\ calls[c].state = "sent" /\ calls[c].answers # {"Disconnected"}
               THEN calls[c].answers \cup A ELSE calls[c].answers
  BY <1>1 DEF CallType
<1>3. \A c \in Call : (v[c].state = "sent") = (v[c].answers # {})
  BY <1>2
<1>4. v \in [Call -> CallType]
  BY <1>1, <1>2
<1>5. QED
  BY <1>2, <1>3, <1>4 DEF v, LostTo

\* The end of the daemon, in any world
LEMMA DaemonEndsEffect ==
  ASSUME NEW w, IsWorld(w), MayEnd(w)
  PROVE  LET v == DaemonEnds(w)
             peer == w.manager.connection = "peer"
             A == IF peer THEN {"NoReply", "Disconnected"} ELSE {"NoReply"}
         IN /\ IsWorld(v) /\ Same(w, v)
            /\ v.manager.connection = IF peer THEN "down" ELSE w.manager.connection
            /\ v.manager.lost = (w.manager.lost \/ peer)
            /\ v.manager.activation = w.manager.activation
            /\ \A p \in Proxy :
                 /\ v.proxy[p].status = w.proxy[p].status
                 /\ v.proxy[p].connected = w.proxy[p].connected
                 /\ p # Main => v.proxy[p] = w.proxy[p]
            /\ v.proxy[Main].path =
                 IF w.proxy[Main].path = "live" THEN "dead" ELSE w.proxy[Main].path
            /\ v.call = Lost(w.call, Call, A)
<1> DEFINE v == DaemonEnds(w)
           peer == w.manager.connection = "peer"
           A == IF peer THEN {"NoReply", "Disconnected"} ELSE {"NoReply"}
           path == IF w.proxy[Main].path = "live" THEN "dead" ELSE w.proxy[Main].path
           m == [w.manager EXCEPT !.ends = @ - 1, !.daemon = FALSE,
                                  !.connection = IF peer THEN "down" ELSE @,
                                  !.lost = @ \/ peer]
<1>1. /\ DOMAIN v = DOMAIN w /\ Same(w, v) /\ v.manager = m
      /\ v.call = Lost(w.call, Call, A)
      /\ v.proxy = [w.proxy EXCEPT ![Main].path = path]
  BY DEF DaemonEnds, IsWorld, Same
<1>2. /\ m \in ManagerType
      /\ m.connection = IF peer THEN "down" ELSE w.manager.connection
      /\ m.lost = (w.manager.lost \/ peer) /\ m.activation = w.manager.activation
  <2> DEFINE o == w.manager
             n == o.ends - 1
             k == IF peer THEN "down" ELSE o.connection
             l == o.lost \/ peer
  <2>1. o \in ManagerType /\ o.ends > 0
    BY DEF MayEnd, IsWorld
  <2>2. n \in 0 .. MaxEnds
    BY <2>1, ProxyAssumption DEF ManagerType
  <2>3. k \in {"none", "peer", "bus", "down"} /\ l \in BOOLEAN
    BY <2>1 DEF ManagerType
  <2>4. m = [o EXCEPT !.ends = n, !.daemon = FALSE, !.connection = k, !.lost = l]
    OBVIOUS
  <2> HIDE DEF m, n, k, l
  <2>5. m \in ManagerType /\ m.connection = k /\ m.lost = l /\ m.activation = o.activation
    BY <2>1, <2>2, <2>3, <2>4 DEF ManagerType
  <2>6. QED
    BY <2>5 DEF k, l
<1>3. A \in SUBSET Answer /\ A # {}
  BY DEF Answer
<1> HIDE DEF A, m, v
<1>4. /\ v.call \in [Call -> CallType]
      /\ \A c \in Call : (v.call[c].state = "sent") = (v.call[c].answers # {})
  <2>1. /\ w.call \in [Call -> CallType]
        /\ \A c \in Call : (w.call[c].state = "sent") = (w.call[c].answers # {})
    BY DEF IsWorld
  <2> DEFINE x == Lost(w.call, Call, A)
  <2>2. /\ x \in [Call -> CallType]
        /\ \A c \in Call : (x[c].state = "sent") = (x[c].answers # {})
    <3>1. LostTo(w.call, Call, A, x)
      BY <1>3, <2>1, LostEffect
    <3> HIDE DEF x
    <3>2. QED
      BY <3>1 DEF LostTo
  <2> HIDE DEF x
  <2>3. v.call = x
    BY <1>1 DEF x
  <2>4. QED
    BY <2>2, <2>3
<1>5. /\ v.proxy \in [Proxy -> ProxyType]
      /\ v.proxy[Main].path = path
      /\ \A p \in Proxy :
           /\ v.proxy[p].status = w.proxy[p].status
           /\ v.proxy[p].connected = w.proxy[p].connected
           /\ p # Main => v.proxy[p] = w.proxy[p]
  BY <1>1, ProxyOfCall DEF IsWorld, ProxyType
<1>6. IsWorld(v)
  BY <1>1, <1>2, <1>4, <1>5, ProxyOfCall DEF IsWorld
<1>7. QED
  BY <1>1, <1>2, <1>5, <1>6 DEF v, A

LEMMA SessionEndsIsTyped ==
  ASSUME SessionAlways, UNCHANGED interference, SessionEnds
  PROVE  SessionAlways'
<1> DEFINE v == DaemonEnds(World)
           A == IF World.manager.connection = "peer"
                  THEN {"NoReply", "Disconnected"} ELSE {"NoReply"}
<1>1. SessionWorld(World) /\ IsWorld(World) /\ MayEnd(World)
  BY WorldOfSession DEF SessionWorld, SessionEnds
<1>2. /\ manager' = v.manager /\ proxy' = v.proxy /\ call' = v.call
      /\ gone' \in {gone, proxy[Main].path \in {"live", "dead"}}
      /\ UNCHANGED <<auth, processCall, reports, givenUp>>
  BY DEF SessionEnds
<1>3. /\ IsWorld(v) /\ Same(World, v)
      /\ \A p \in Proxy : v.proxy[p].status = World.proxy[p].status
      /\ v.proxy[Main].path =
           IF World.proxy[Main].path = "live" THEN "dead" ELSE World.proxy[Main].path
      /\ v.call = Lost(World.call, Call, A)
  BY <1>1, DaemonEndsEffect
<1>4. A \in SUBSET Answer /\ A # {} /\ "NoReply" \in A
  BY DEF Answer
<1> HIDE DEF v, A
<1>5. \A c \in Call :
        /\ v.call[c].state = World.call[c].state
        /\ v.call[c].answers =
             IF World.call[c].state = "sent" /\ World.call[c].answers # {"Disconnected"}
               THEN World.call[c].answers \cup A ELSE World.call[c].answers
  <2>1. /\ World.call \in [Call -> CallType]
        /\ \A c \in Call : (World.call[c].state = "sent") = (World.call[c].answers # {})
    BY <1>1 DEF IsWorld
  <2> DEFINE x == Lost(World.call, Call, A)
  <2>2. /\ x \in [Call -> CallType]
        /\ \A c \in Call :
             /\ x[c].state = World.call[c].state /\ x[c].tried = World.call[c].tried
             /\ x[c].destroyed = World.call[c].destroyed
             /\ x[c].answers =
                  IF c \in Call /\ World.call[c].state = "sent"
                       /\ World.call[c].answers # {"Disconnected"}
                    THEN World.call[c].answers \cup A ELSE World.call[c].answers
             /\ (x[c].state = "sent") = (x[c].answers # {})
    <3>1. LostTo(World.call, Call, A, x)
      BY <1>4, <2>1, LostEffect
    <3> HIDE DEF x
    <3>2. QED
      BY <3>1 DEF LostTo
  <2> HIDE DEF x
  <2>3. v.call = x
    BY <1>3 DEF x
  <2>4. QED
    BY <2>2, <2>3
<1>6. /\ v.auth = World.auth /\ v.processCall = World.processCall
      /\ v.reports = World.reports
      /\ {"auth", "processCall", "reports"} \subseteq DOMAIN v
  BY <1>1, <1>3 DEF Same, SessionWorld
<1>7. SessionWorld(v)
  <2>1. {"auth", "processCall", "reports"} \subseteq DOMAIN v
    BY <1>1, <1>3, <1>5, <1>6 DEF SessionWorld
  <2>2. \A r \in Reg : /\ (v.call[r].state = "none") = (World.call[r].state = "none")
                      /\ (v.proxy[r].status = "none") = (World.proxy[r].status = "none")
    BY <1>1, <1>3, <1>5, <1>6, ProxyOfCall
  <2>3. QED
    BY <1>1, <1>3, <1>5, <1>6, <2>1, <2>2, SameSession
<1>8. Late(v)
  <2> SUFFICES ASSUME NEW c \in Own, v.call[c].state = "sent"
               PROVE  v.call[c].answers \ {"success", "error"} # {}
    BY DEF Late
  <2>1. v.call[c].answers = {"Disconnected"} \/ "NoReply" \in v.call[c].answers
    BY <1>4, <1>5, ProxyOfCall
  <2>2. QED
    BY <2>1
<1>9. gone' \in BOOLEAN /\ (gone' => v.proxy[Main].path = "dead")
  <2>1. gone \in BOOLEAN /\ World.proxy = proxy /\ (gone => proxy[Main].path = "dead")
    BY WorldOfSession DEF SessionAlways, SessionTypeOK
  <2>2. CASE gone' = gone
    BY <1>3, <2>1, <2>2
  <2>3. CASE gone' = (proxy[Main].path \in {"live", "dead"})
    BY <1>3, <2>1, <2>3
  <2>4. QED
    BY <1>2, <2>2, <2>3
<1>10. /\ auth' = v.auth /\ processCall' = v.processCall /\ reports' = v.reports
       /\ givenUp' \subseteq ProcessCall
  BY <1>2, <1>6, WorldOfSession DEF SessionAlways, SessionTypeOK
<1>11. QED
  BY <1>2, <1>7, <1>8, <1>9, <1>10, SessionWorldIsTyped

LEMMA ObjectGoneIsTyped ==
  ASSUME SessionAlways, UNCHANGED interference, ObjectGone
  PROVE  SessionAlways'
<1> DEFINE m == [manager EXCEPT !.ends = @ - 1]
           A == {"UnknownObject"}
           v == [World EXCEPT !.manager = m, !.proxy = [proxy EXCEPT ![Main].path = "dead"],
                              !.call = Lost(call, Own, A)]
<1>1. SessionWorld(World) /\ IsWorld(World) /\ World.call = call /\ World.proxy = proxy
        /\ World.manager = manager
  BY WorldOfSession DEF SessionWorld
<1>2. /\ manager.ends > 0 /\ manager' = m
      /\ proxy' = [proxy EXCEPT ![Main].path = "dead"]
      /\ call' = Lost(call, Own, A) /\ gone' = TRUE
      /\ UNCHANGED <<auth, processCall, reports, givenUp>>
  BY DEF ObjectGone
<1>3. m \in ManagerType
  BY <1>1, <1>2, ProxyAssumption DEF IsWorld, ManagerType
<1>4. A \in SUBSET Answer /\ A # {}
  BY DEF Answer
<1>5. /\ DOMAIN v = DOMAIN World /\ v.manager = m /\ v.call = Lost(call, Own, A)
      /\ v.proxy = [proxy EXCEPT ![Main].path = "dead"]
      /\ v.auth = World.auth /\ v.processCall = World.processCall
      /\ v.reports = World.reports
  BY <1>1 DEF SessionWorld, IsWorld
<1> HIDE DEF v, m, A
<1>6. /\ v.call \in [Call -> CallType]
      /\ \A c \in Call :
           /\ v.call[c].state = call[c].state
           /\ v.call[c].answers =
                IF c \in Own /\ call[c].state = "sent" /\ call[c].answers # {"Disconnected"}
                  THEN call[c].answers \cup A ELSE call[c].answers
           /\ (v.call[c].state = "sent") = (v.call[c].answers # {})
  <2>1. /\ call \in [Call -> CallType]
        /\ \A c \in Call : (call[c].state = "sent") = (call[c].answers # {})
    BY <1>1 DEF IsWorld
  <2> DEFINE x == Lost(call, Own, A)
  <2>2. /\ x \in [Call -> CallType]
        /\ \A c \in Call :
             /\ x[c].state = call[c].state /\ x[c].tried = call[c].tried
             /\ x[c].destroyed = call[c].destroyed
             /\ x[c].answers =
                  IF c \in Own /\ call[c].state = "sent" /\ call[c].answers # {"Disconnected"}
                    THEN call[c].answers \cup A ELSE call[c].answers
             /\ (x[c].state = "sent") = (x[c].answers # {})
    <3>1. LostTo(call, Own, A, x)
      BY <1>4, <2>1, LostEffect
    <3> HIDE DEF x
    <3>2. QED
      BY <3>1 DEF LostTo
  <2> HIDE DEF x
  <2>3. v.call = x
    BY <1>5 DEF x
  <2>4. QED
    BY <2>2, <2>3
<1>7. /\ v.proxy \in [Proxy -> ProxyType]
      /\ v.proxy[Main].path = "dead"
      /\ \A p \in Proxy : v.proxy[p].status = proxy[p].status
  BY <1>1, <1>5, ProxyOfCall DEF IsWorld, ProxyType
<1>8. IsWorld(v)
  BY <1>1, <1>3, <1>5, <1>6, <1>7, ProxyOfCall DEF IsWorld
<1>9. SessionWorld(v)
  <2>1. \A r \in Reg : /\ (v.call[r].state = "none") = (World.call[r].state = "none")
                       /\ (v.proxy[r].status = "none") = (World.proxy[r].status = "none")
    BY <1>1, <1>6, <1>7, ProxyOfCall
  <2>2. {"auth", "processCall", "reports"} \subseteq DOMAIN v
    BY <1>1, <1>5 DEF SessionWorld
  <2>3. QED
    BY <1>1, <1>5, <1>8, <2>1, <2>2 DEF SessionWorld
<1>10. Late(v)
  <2> SUFFICES ASSUME NEW c \in Own, v.call[c].state = "sent"
               PROVE  v.call[c].answers \ {"success", "error"} # {}
    BY DEF Late
  <2>1. v.call[c].answers = {"Disconnected"} \/ "UnknownObject" \in v.call[c].answers
    BY <1>6, ProxyOfCall DEF A
  <2>2. QED
    BY <2>1
<1>11. /\ manager' = v.manager /\ proxy' = v.proxy /\ call' = v.call
       /\ auth' = v.auth /\ processCall' = v.processCall /\ reports' = v.reports
       /\ givenUp' \subseteq ProcessCall
  BY <1>2, <1>5, WorldOfSession DEF SessionAlways, SessionTypeOK
<1>12. QED
  BY <1>2, <1>7, <1>9, <1>10, <1>11, SessionWorldIsTyped

LEMMA AfterReadingEffect ==
  ASSUME NEW w, SessionWorld(w), Late(w)
  PROVE  LET v == AfterReading(w) IN
         /\ SessionWorld(v)
         /\ v.manager = w.manager /\ v.proxy = w.proxy /\ v.auth = w.auth
         /\ v.processCall = w.processCall /\ v.reports = w.reports
         /\ \A r \in Reg : v.call[r] = w.call[r]
         /\ \A c \in Own :
              /\ v.call[c].state = w.call[c].state
              /\ v.call[c].tried = w.call[c].tried
              /\ v.call[c].destroyed = w.call[c].destroyed
              /\ v.call[c].answers = w.call[c].answers \ {"success", "error"}
<1> DEFINE v == AfterReading(w)
<1>1. /\ DOMAIN v = DOMAIN w
      /\ v.manager = w.manager /\ v.proxy = w.proxy /\ v.auth = w.auth
      /\ v.processCall = w.processCall /\ v.reports = w.reports
      /\ v.call = [c \in Call |->
           IF c \in Own THEN [w.call[c] EXCEPT !.answers = @ \ {"success", "error"}]
                        ELSE w.call[c]]
  <2> DEFINE x == [c \in Call |->
           IF c \in Own THEN [w.call[c] EXCEPT !.answers = @ \ {"success", "error"}]
                        ELSE w.call[c]]
  <2>1. v = [w EXCEPT !.call = x]
    BY DEF AfterReading
  <2> HIDE DEF x, v
  <2>2. /\ DOMAIN v = DOMAIN w
        /\ v.manager = w.manager /\ v.proxy = w.proxy /\ v.auth = w.auth
        /\ v.processCall = w.processCall /\ v.reports = w.reports
        /\ v.call = x
    BY <2>1 DEF SessionWorld, IsWorld
  <2>3. QED
    BY <2>2 DEF x
<1> HIDE DEF v
<1>2. \A r \in Reg : v.call[r] = w.call[r]
  BY <1>1, ProxyOfCall
<1>3. \A c \in Own :
        /\ v.call[c] \in CallType
        /\ v.call[c].state = w.call[c].state
        /\ v.call[c].tried = w.call[c].tried
        /\ v.call[c].destroyed = w.call[c].destroyed
        /\ v.call[c].answers = w.call[c].answers \ {"success", "error"}
  BY <1>1, ProxyOfCall DEF SessionWorld, IsWorld, CallType
<1>4. v.call \in [Call -> CallType]
  BY <1>1, <1>2, <1>3 DEF SessionWorld, IsWorld, Call
<1>5. \A c \in Call : (v.call[c].state = "sent") = (v.call[c].answers # {})
  <2>1. \A c \in Own : (v.call[c].state = "sent") = (v.call[c].answers # {})
    <3> SUFFICES ASSUME NEW c \in Own
                 PROVE  (v.call[c].state = "sent") = (v.call[c].answers # {})
      OBVIOUS
    <3>1. (w.call[c].state = "sent") = (w.call[c].answers # {})
      BY ProxyOfCall DEF SessionWorld, IsWorld
    <3>2. w.call[c].state = "sent" => w.call[c].answers \ {"success", "error"} # {}
      BY DEF Late
    <3>3. QED
      BY <1>3, <3>1, <3>2
  <2>2. \A c \in Reg : (v.call[c].state = "sent") = (v.call[c].answers # {})
    BY <1>2, ProxyOfCall DEF SessionWorld, IsWorld
  <2>3. QED
    BY <2>1, <2>2 DEF Call
<1>6. IsWorld(v)
  BY <1>1, <1>4, <1>5 DEF SessionWorld, IsWorld
<1>7. SessionWorld(v)
  <2>1. {"auth", "processCall", "reports"} \subseteq DOMAIN v
    BY <1>1 DEF SessionWorld
  <2>2. QED
    BY <1>1, <1>2, <1>6, <2>1, SameSession
<1>8. QED
  BY <1>1, <1>2, <1>3, <1>7 DEF v

LEMMA UnregisteredIsTyped ==
  ASSUME SessionAlways, UNCHANGED interference, Unregistered
  PROVE  SessionAlways'
<1> DEFINE u == AfterReading(World)
           path == "none"
           v == SetObjectPath(u, path)
<1>1. Become(v) /\ UNCHANGED givenUp
  BY DEF Unregistered
<1>2. SessionWorld(u)
  BY WorldOfSession, AfterReadingEffect DEF Unregistered
<1>3. path \in {"none", "daemon", "live", "dead"} /\ path # "dead"
  OBVIOUS
<1> HIDE DEF u, path
<1>4. SessionWorld(v) /\ v.proxy[Main].path = path
  BY <1>2, <1>3, SessionPathEffect, SetObjectPathEffect DEF SessionWorld
<1>5. StaysLate(World, v)
  BY <1>3, <1>4 DEF StaysLate
<1>6. QED
  BY <1>1, <1>4, <1>5, BecomeIsTyped DEF SessionAlways, SessionTypeOK

\* Nothing is made or taken away in a session.
LEMMA KeptInSession ==
  ASSUME NEW w, SessionWorld(w), NEW v, Kept(w, v)
  PROVE  /\ SessionWorld(v) /\ StaysLate(w, v)
         /\ v.auth = w.auth /\ v.processCall = w.processCall /\ v.reports = w.reports
<1>1. /\ v.auth = w.auth /\ v.processCall = w.processCall /\ v.reports = w.reports
      /\ {"auth", "processCall", "reports"} \subseteq DOMAIN v
  BY DEF Kept, Same, SessionWorld
<1>2. SessionWorld(v)
  BY <1>1, ProxyOfCall DEF Kept, SessionWorld
<1>3. StaysLate(w, v)
  BY ProxyOfCall DEF Kept, StaysLate
<1>4. QED
  BY <1>1, <1>2, <1>3

\* onActivationDone(): the manager knows, and then perhaps connects.
Settled(w, s) == [w EXCEPT !.manager = [w.manager EXCEPT !.activation = "none", !.service = s]]

LEMMA OnActivationDoneEffect ==
  ASSUME NEW w, IsWorld(w)
  PROVE  /\ Kept(w, OnActivationDone(w))
         /\ \E s \in {"unknown", "activating", "activated"} :
              /\ IsWorld(Settled(w, s)) /\ Kept(w, Settled(w, s))
              /\ Settled(w, s).manager.connection = w.manager.connection
              /\ Settled(w, s).manager.lost = w.manager.lost
              /\ Settled(w, s).manager.activation = "none"
              /\ Settled(w, s).proxy = w.proxy /\ Settled(w, s).call = w.call
              /\ \/ OnActivationDone(w) = Settled(w, s)
                 \/ OnActivationDone(w) = Setup(Settled(w, s))
<1>1. \A s \in {"unknown", "activating", "activated"} :
        /\ IsWorld(Settled(w, s)) /\ Kept(w, Settled(w, s))
        /\ Settled(w, s).manager.connection = w.manager.connection
        /\ Settled(w, s).manager.lost = w.manager.lost
        /\ Settled(w, s).manager.activation = "none"
        /\ Settled(w, s).proxy = w.proxy /\ Settled(w, s).call = w.call
  <2> SUFFICES ASSUME NEW s \in {"unknown", "activating", "activated"}
               PROVE  /\ IsWorld(Settled(w, s)) /\ Kept(w, Settled(w, s))
                      /\ Settled(w, s).manager.connection = w.manager.connection
                      /\ Settled(w, s).manager.lost = w.manager.lost
                      /\ Settled(w, s).manager.activation = "none"
                      /\ Settled(w, s).proxy = w.proxy /\ Settled(w, s).call = w.call
    OBVIOUS
  <2> DEFINE m == [w.manager EXCEPT !.activation = "none", !.service = s]
  <2>1. /\ m \in ManagerType /\ m.connection = w.manager.connection
        /\ m.lost = w.manager.lost /\ m.activation = "none"
    BY DEF IsWorld, ManagerType
  <2>2. Settled(w, s) = [w EXCEPT !.manager = m]
    BY DEF Settled
  <2> HIDE DEF m
  <2>3. QED
    BY <2>1, <2>2, SetManager
<1>2. \E s \in {"unknown", "activating", "activated"} :
        \/ OnActivationDone(w) = Settled(w, s)
        \/ OnActivationDone(w) = Setup(Settled(w, s))
  <2>1. w.manager = [w.manager EXCEPT !.service = w.manager.service]
          /\ w.manager.service \in {"unknown", "activating", "activated"}
    BY DEF IsWorld, ManagerType
  <2>2. CASE w.manager.activation = "done"
    <3>1. OnActivationDone(w) = Setup(Settled(w, "activated"))
      BY <2>2 DEF OnActivationDone, Settled, IsWorld, ManagerType
    <3>2. QED
      BY <3>1
  <2>3. CASE w.manager.activation # "done"
    <3>1. OnActivationDone(w) = Settled(w, w.manager.service)
      BY <2>3 DEF OnActivationDone, Settled, IsWorld, ManagerType
    <3>2. QED
      BY <2>1, <3>1
  <2>4. QED
    BY <2>2, <2>3
<1>3. Kept(w, OnActivationDone(w))
  BY <1>1, <1>2, SetupEffect, KeptTransitive
<1>4. QED
  BY <1>1, <1>2, <1>3

LEMMA ActivationsAreTyped ==
  ASSUME SessionAlways, UNCHANGED interference,
         SessionActivationDone \/ \E ok \in BOOLEAN : SessionActivated(ok)
  PROVE  SessionAlways'
<1>1. SessionWorld(World) /\ IsWorld(World) /\ givenUp \subseteq ProcessCall
  BY WorldOfSession DEF SessionWorld, SessionAlways, SessionTypeOK
<1>2. CASE SessionActivationDone
  <2>1. Kept(World, OnActivationDone(World))
    BY <1>1, OnActivationDoneEffect
  <2>2. /\ SessionWorld(OnActivationDone(World))
        /\ StaysLate(World, OnActivationDone(World))
    BY <1>1, <2>1, KeptInSession
  <2>3. Become(OnActivationDone(World)) /\ UNCHANGED givenUp
    BY <1>2 DEF SessionActivationDone
  <2>4. QED
    BY <1>1, <2>2, <2>3, BecomeIsTyped
<1>3. ASSUME NEW ok \in BOOLEAN, SessionActivated(ok)
      PROVE  SessionAlways'
  <2> DEFINE m == [World.manager EXCEPT !.activation = IF ok THEN "done" ELSE "failed",
                                        !.daemon = @ \/ ok]
             v == [World EXCEPT !.manager = m]
  <2>1. m \in ManagerType
    BY <1>1 DEF IsWorld, ManagerType
  <2>2. v = Activated(World, ok)
    BY DEF Activated, World
  <2> HIDE DEF m
  <2>3. /\ Kept(World, v)
        /\ v.manager = m /\ v.proxy = World.proxy /\ v.call = World.call
    BY <1>1, <2>1, SetManager
  <2> HIDE DEF v
  <2>4. /\ SessionWorld(v)
        /\ v.auth = World.auth /\ v.processCall = World.processCall
        /\ v.reports = World.reports
    BY <1>1, <2>3, KeptInSession
  <2>5. /\ manager' = v.manager
        /\ UNCHANGED <<proxy, call, auth, processCall, gone, reports, givenUp>>
    BY <1>3, <2>2 DEF SessionActivated
  <2>6. /\ proxy' = v.proxy /\ call' = v.call /\ auth' = v.auth
        /\ processCall' = v.processCall /\ reports' = v.reports
    BY <2>3, <2>4, <2>5, WorldOfSession
  <2>7. gone' \in BOOLEAN /\ (gone' => v.proxy[Main].path = "dead" /\ Late(v))
    BY <2>3, <2>5, WorldOfSession DEF SessionAlways, SessionTypeOK, Late
  <2>8. QED
    BY <1>1, <2>4, <2>5, <2>6, <2>7, SessionWorldIsTyped
<1>4. QED
  BY <1>2, <1>3

\* onDisconnected(), before the proxies are told
Cut(w) ==
  [w EXCEPT !.manager = [w.manager EXCEPT !.lost = FALSE, !.service = "unknown"],
            !.call = [c \in Call |->
              IF "Disconnected" \in w.call[c].answers
                THEN [w.call[c] EXCEPT !.answers = {"Disconnected"}] ELSE w.call[c]]]

LEMMA CutEffect ==
  ASSUME NEW w, IsWorld(w)
  PROVE  LET v == Cut(w) IN
         /\ IsWorld(v) /\ Same(w, v) /\ v.proxy = w.proxy
         /\ v.manager = [w.manager EXCEPT !.lost = FALSE, !.service = "unknown"]
         /\ \A c \in Call :
              /\ v.call[c].state = w.call[c].state /\ v.call[c].tried = w.call[c].tried
              /\ v.call[c].destroyed = w.call[c].destroyed
              /\ v.call[c].answers = IF "Disconnected" \in w.call[c].answers
                                       THEN {"Disconnected"} ELSE w.call[c].answers
         /\ OnDisconnected(w) = EmitDisconnected(v)
<1> DEFINE v == Cut(w)
           m == [w.manager EXCEPT !.lost = FALSE, !.service = "unknown"]
           x == [c \in Call |->
              IF "Disconnected" \in w.call[c].answers
                THEN [w.call[c] EXCEPT !.answers = {"Disconnected"}] ELSE w.call[c]]
<1>1. v = [w EXCEPT !.manager = m, !.call = x]
  BY DEF Cut
<1>2. OnDisconnected(w) = EmitDisconnected(v)
  <2>1. v = [w EXCEPT !.manager.lost = FALSE, !.manager.service = "unknown", !.call = x]
    BY <1>1 DEF IsWorld
  <2> HIDE DEF v
  <2>2. QED
    BY <2>1 DEF OnDisconnected, IsWorld
<1> HIDE DEF v
<1>3. m \in ManagerType
  BY DEF IsWorld, ManagerType
<1>4. ASSUME NEW c \in Call
      PROVE  /\ x[c] \in CallType
             /\ x[c].state = w.call[c].state /\ x[c].tried = w.call[c].tried
             /\ x[c].destroyed = w.call[c].destroyed
             /\ x[c].answers = IF "Disconnected" \in w.call[c].answers
                                 THEN {"Disconnected"} ELSE w.call[c].answers
             /\ (x[c].state = "sent") = (x[c].answers # {})
  <2>1. w.call[c] \in CallType /\ (w.call[c].state = "sent") = (w.call[c].answers # {})
    BY DEF IsWorld
  <2>2. {"Disconnected"} \in SUBSET Answer
    BY DEF Answer
  <2>3. QED
    BY <2>1, <2>2 DEF CallType
<1>5. x \in [Call -> CallType]
  BY <1>4
<1> HIDE DEF m, x
<1>6. /\ DOMAIN v = DOMAIN w /\ Same(w, v) /\ v.proxy = w.proxy
      /\ v.manager = m /\ v.call = x
  BY <1>1 DEF IsWorld, Same
<1>7. IsWorld(v)
  BY <1>3, <1>4, <1>5, <1>6 DEF IsWorld
<1>8. QED
  BY <1>2, <1>4, <1>6, <1>7 DEF v, m

LEMMA SessionDisconnectedIsTyped ==
  ASSUME SessionAlways, UNCHANGED interference, SessionDisconnected
  PROVE  SessionAlways'
<1> DEFINE u == Cut(World)
           v == OnDisconnected(World)
<1>1. SessionWorld(World) /\ IsWorld(World) /\ givenUp \subseteq ProcessCall
  BY WorldOfSession DEF SessionWorld, SessionAlways, SessionTypeOK
<1>2. /\ IsWorld(u) /\ Same(World, u) /\ u.proxy = World.proxy
      /\ \A c \in Call : u.call[c].state = World.call[c].state
      /\ v = EmitDisconnected(u)
  BY <1>1, CutEffect
<1> HIDE DEF u, v
<1>3. /\ IsWorld(v) /\ Same(u, v)
      /\ \A p \in Proxy :
           IF u.proxy[p].status = "none" THEN v.proxy[p] = u.proxy[p]
           ELSE v.proxy[p] = [connected |-> FALSE, path |-> "none", status |-> "Incomplete"]
      /\ \A c \in Call :
           v.call[c] = IF u.call[c].state = "sent" /\ u.proxy[ProxyOf(c)].status = "Ready"
                         THEN [u.call[c] EXCEPT !.destroyed = TRUE] ELSE u.call[c]
  BY <1>2, EmitDisconnectedEffect
<1>4. \A c \in Call : v.call[c].state = World.call[c].state
  <2> SUFFICES ASSUME NEW c \in Call
               PROVE  v.call[c].state = World.call[c].state
    OBVIOUS
  <2>1. [u.call[c] EXCEPT !.destroyed = TRUE].state = u.call[c].state
    BY <1>2 DEF IsWorld, CallType
  <2>2. QED
    BY <1>2, <1>3, <2>1
<1>5. \A p \in Proxy : (v.proxy[p].status = "none") = (World.proxy[p].status = "none")
  BY <1>2, <1>3
<1>6. /\ v.auth = World.auth /\ v.processCall = World.processCall
      /\ v.reports = World.reports
      /\ {"auth", "processCall", "reports"} \subseteq DOMAIN v
  BY <1>1, <1>2, <1>3 DEF Same, SessionWorld
<1>7. SessionWorld(v)
  BY <1>1, <1>3, <1>4, <1>5, <1>6, ProxyOfCall DEF SessionWorld
<1>8. v.proxy[Main].path = "none"
  BY <1>2, <1>3, ProxyOfCall DEF IsWorld
<1>9. Become(v) /\ UNCHANGED givenUp
  BY DEF SessionDisconnected, v
<1>10. QED
  BY <1>1, <1>7, <1>8, <1>9, BecomeIsTyped DEF StaysLate

\* The constructor
LEMMA FreshEffect ==
  ASSUME NEW peerBus \in BOOLEAN, NEW daemon \in BOOLEAN, NEW ends \in 0 .. MaxEnds
  PROVE  LET w == [manager |-> [peerBus |-> peerBus, connection |-> "none", lost |-> FALSE,
                                service |-> "unknown", activation |-> "none",
                                daemon |-> daemon, ends |-> ends],
                   proxy |-> [p \in Proxy |->
                      IF p = Main THEN [NoProxy EXCEPT !.status = "Incomplete"] ELSE NoProxy],
                   call |-> [c \in Call |-> NoCall]]
         IN IsWorld(w) /\ Fresh(peerBus, daemon, ends) = Setup(w)
<1> DEFINE m == [peerBus |-> peerBus, connection |-> "none", lost |-> FALSE,
                 service |-> "unknown", activation |-> "none", daemon |-> daemon, ends |-> ends]
           x == [p \in Proxy |->
                   IF p = Main THEN [NoProxy EXCEPT !.status = "Incomplete"] ELSE NoProxy]
           y == [c \in Call |-> NoCall]
           w == [manager |-> m, proxy |-> x, call |-> y]
<1>1. m \in ManagerType
  BY DEF ManagerType
<1>2. x \in [Proxy -> ProxyType] /\ x[Main].status # "none"
  BY ProxyOfCall DEF ProxyType, NoProxy
<1>3. y \in [Call -> CallType] /\ \A c \in Call : (y[c].state = "sent") = (y[c].answers # {})
  BY BlankCalls
<1>4. Fresh(peerBus, daemon, ends) = Setup(w)
  BY DEF Fresh
<1> HIDE DEF m, x, y
<1>5. IsWorld(w)
  BY <1>1, <1>2, <1>3 DEF IsWorld
<1>6. QED
  BY <1>4, <1>5 DEF m, x, y


-----------------------------------------------------------------------------
\* SessionOrderly is kept by every step while the daemon stays.

LEMMA BecomeIsOrderly ==
  ASSUME SessionAlways, SessionOrderly,
         NEW w, Orderly(w), RegistrationsKnown(w), OrderlyReports(w),
         w.proxy[Main].path = "dead" => proxy[Main].path = "dead", Become(w)
  PROVE  SessionOrderly'
<1>1. /\ World'.manager = w.manager /\ World'.proxy = w.proxy /\ World'.call = w.call
      /\ World'.auth = w.auth /\ World'.processCall = w.processCall
      /\ World'.reports = w.reports
  BY DEF World, Become
<1>2. Orderly(World') /\ RegistrationsKnown(World') /\ OrderlyReports(World')
  BY <1>1, OrderlySame DEF RegistrationsKnown, OrderlyReports
<1>3. (proxy'[Main].path = "dead") = gone'
  BY DEF SessionAlways, SessionTypeOK, SessionOrderly, Become
<1>4. QED
  BY <1>2, <1>3 DEF SessionOrderly

LEMMA SessionIsOrderly ==
  ASSUME SessionAlways, SessionOrderly
  PROVE  /\ Orderly(World) /\ RegistrationsKnown(World) /\ OrderlyReports(World)
         /\ SessionWorld(World) /\ IsWorld(World)
         /\ auth => proxy[Main].path = "none"
<1>1. SessionWorld(World) /\ World.auth = auth /\ World.call = call /\ World.proxy = proxy
  BY WorldOfSession
<1>2. auth => \E r \in Reg : World.call[r].state # "none"
  BY <1>1 DEF SessionWorld
<1>3. QED
  BY <1>1, <1>2 DEF SessionOrderly, SessionWorld, Orderly, OrderlyRegistrations

\* A call of the application, or one that is tried again, with the registration it may need
LEMMA SendOrderly ==
  ASSUME NEW w, SessionWorld(w), MayRegister(w), Orderly(w), RegistrationsKnown(w),
         NEW c \in Own, w.call[c].state = "none"
  PROVE  LET v == Send(w, c) IN
         /\ Orderly(v) /\ RegistrationsKnown(v)
         /\ v.call[c].state \in {"queued", "sent"}
         /\ \A d \in Own \ {c} : v.call[d] = w.call[d]
<1> DEFINE u == QueueCall(w, c)
           v == Send(w, c)
<1>1. /\ SessionWorld(u) /\ MayRegister(u) /\ u.auth = w.auth
      /\ v = IF NeedsPath(u, c) THEN Register(u) ELSE u
  BY SendEffect
<1>2. /\ Orderly(u) /\ u.call[c].state \in {"queued", "sent"}
      /\ \A d \in Own \ {c} : u.call[d] = w.call[d]
  BY QueueCallOrderly DEF SessionWorld
<1>3. Added(w, u, c)
  BY ProxyOfCall, QueueCallEffect DEF SessionWorld
<1> HIDE DEF u, v
<1>4. RegistrationsKnown(u)
  BY <1>1, <1>3, ProxyOfCall DEF Added, RegistrationsKnown
<1>5. CASE NeedsPath(u, c)
  <2>1. u.proxy[Main].path = "none"
    BY <1>5, ProxyOfCall DEF NeedsPath
  <2>2. v = Register(u)
    BY <1>1, <1>5
  <2>3. /\ Orderly(v) /\ RegistrationsKnown(v)
        /\ \A d \in Own : v.call[d] = u.call[d]
    BY <1>1, <1>2, <1>4, <2>1, <2>2, RegisterOrderly
  <2>4. QED
    BY <1>2, <2>3 DEF v
<1>6. CASE ~NeedsPath(u, c)
  BY <1>1, <1>2, <1>4, <1>6 DEF v
<1>7. QED
  BY <1>5, <1>6

LEMMA RequeuedOrderly ==
  ASSUME NEW w, SessionWorld(w), MayRegister(w), Orderly(w), RegistrationsKnown(w),
         NEW c \in Own, w.call[c].state = "sent", w.proxy[Main].path = "none"
  PROVE  LET v == Requeued(w, c) IN
         /\ Orderly(v) /\ RegistrationsKnown(v)
         /\ v.call[c].state = "queued"
         /\ \A d \in Own \ {c} : v.call[d] = w.call[d]
<1> DEFINE u == Enqueue(w, c)
           v == Requeued(w, c)
<1>1. /\ Added(w, u, c) /\ SessionWorld(u) /\ MayRegister(u) /\ u.auth = w.auth
      /\ v = IF c \in Own /\ NeedsPath(u, c) THEN Register(u) ELSE u
  BY ProxyOfCall, RequeuedEffect
<1>2. /\ Orderly(u) /\ u.call[c].state = "queued"
      /\ \A d \in Own \ {c} : u.call[d] = w.call[d]
  BY EnqueueOrderly DEF SessionWorld
<1> HIDE DEF u, v
<1>3. RegistrationsKnown(u) /\ u.proxy[Main].path = "none"
  BY <1>1, ProxyOfCall DEF Added, RegistrationsKnown
<1>4. CASE v = Register(u)
  <2>1. /\ Orderly(v) /\ RegistrationsKnown(v)
        /\ \A d \in Own : v.call[d] = u.call[d]
    BY <1>1, <1>2, <1>3, <1>4, RegisterOrderly
  <2>2. QED
    BY <1>2, <2>1 DEF v
<1>5. CASE v = u
  BY <1>2, <1>3, <1>5 DEF v
<1>6. QED
  BY <1>1, <1>4, <1>5

LEMMA CallsAreOrderly ==
  ASSUME SessionAlways, SessionOrderly, NEW c \in Own,
         \/ c \in ProcessCall /\ Process(c)
         \/ c \notin ProcessCall /\ Request(c)
         \/ c \in CancelCall /\ Cancel(c)
  PROVE  /\ SessionOrderly'
         /\ call'[c].state \in {"queued", "sent"}
         /\ \A d \in Own \ {c} : call'[d] = call[d]
<1> DEFINE v == Send(World, c)
<1>1. /\ Orderly(World) /\ RegistrationsKnown(World) /\ OrderlyReports(World)
      /\ SessionWorld(World) /\ World.call = call /\ World.auth = auth
      /\ World.processCall = processCall /\ World.proxy = proxy
  BY WorldOfSession, SessionIsOrderly
<1>2. call[c].state = "none" /\ MayRegister(World)
  BY <1>1 DEF Process, Request, Cancel, RegFree, MayRegister
<1>3. /\ SessionWorld(v)
      /\ v.processCall = World.processCall /\ v.reports = World.reports
      /\ v.proxy[Main].path = proxy[Main].path
  BY <1>1, <1>2, SendEffect
<1>4. /\ Orderly(v) /\ RegistrationsKnown(v)
      /\ v.call[c].state \in {"queued", "sent"}
      /\ \A d \in Own \ {c} : v.call[d] = call[d]
  BY <1>1, <1>2, SendOrderly
<1> HIDE DEF v
<1>5. ASSUME NEW q \in ProcessCall \cup {None}
      PROVE  LET y == [v EXCEPT !.processCall = q] IN
             /\ y.manager = v.manager /\ y.proxy = v.proxy /\ y.call = v.call
             /\ y.auth = v.auth /\ y.processCall = q /\ y.reports = v.reports
  BY <1>3, AssignmentEffect
<1>6. \E x : \E p \in {c, None, processCall} :
        /\ p \in ProcessCall \cup {None} /\ Become(x)
        /\ x.manager = v.manager /\ x.proxy = v.proxy /\ x.call = v.call /\ x.auth = v.auth
        /\ x.processCall = p /\ x.reports = v.reports
  <2>1. CASE c \in ProcessCall /\ Process(c)
    <3> DEFINE y == [v EXCEPT !.processCall = c]
    <3>1. Become(y)
      BY <2>1 DEF Process, v
    <3>2. /\ y.manager = v.manager /\ y.proxy = v.proxy /\ y.call = v.call
          /\ y.auth = v.auth /\ y.processCall = c /\ y.reports = v.reports
      BY <1>5, <2>1
    <3> HIDE DEF y
    <3>3. QED
      BY <2>1, <3>1, <3>2
  <2>2. CASE c \notin ProcessCall /\ Request(c)
    <3>1. Become(v) /\ processCall \in ProcessCall \cup {None}
      BY <2>2 DEF Request, v, SessionAlways, SessionTypeOK
    <3>2. QED
      BY <1>1, <1>3, <3>1
  <2>3. CASE c \in CancelCall /\ Cancel(c)
    <3> DEFINE y == [v EXCEPT !.processCall = None]
    <3>1. Become(y)
      BY <2>3 DEF Cancel, v
    <3>2. /\ y.manager = v.manager /\ y.proxy = v.proxy /\ y.call = v.call
          /\ y.auth = v.auth /\ y.processCall = None /\ y.reports = v.reports
      BY <1>5, <2>3
    <3> HIDE DEF y
    <3>3. QED
      BY <2>3, <3>1, <3>2
  <2>4. QED
    BY <2>1, <2>2, <2>3
<1>7. PICK x : \E p \in {c, None, processCall} :
        /\ p \in ProcessCall \cup {None} /\ Become(x)
        /\ x.manager = v.manager /\ x.proxy = v.proxy /\ x.call = v.call /\ x.auth = v.auth
        /\ x.processCall = p /\ x.reports = v.reports
  BY <1>6
<1>8. PICK p \in {c, None, processCall} :
        p \in ProcessCall \cup {None} /\ Become(x) /\ x.processCall = p
  BY <1>7
<1>9. Orderly(x) /\ RegistrationsKnown(x)
  BY <1>4, <1>7, OrderlySame DEF RegistrationsKnown
<1>10. OrderlyReports(x)
  <2>1. \A d \in Own : (v.call[d].state = "done") = (call[d].state = "done")
    BY <1>2, <1>4
  <2>2. p # None => x.call[p].state \in {"queued", "sent"}
    <3>1. p # None => p \in Own
      BY <1>8, SessionSetsOfCalls
    <3>2. CASE p = c
      BY <1>4, <1>7, <3>2
    <3>3. CASE p # c
      <4>1. p # None => p = processCall
        BY <1>8, <3>3
      <4>2. processCall # None => call[processCall].state \in {"queued", "sent"}
        BY <1>1 DEF OrderlyReports
      <4>3. QED
        BY <1>4, <1>7, <3>1, <3>3, <4>1, <4>2
    <3>4. QED
      BY <3>2, <3>3
  <2>3. QED
    BY <1>1, <1>3, <1>7, <1>8, <2>1, <2>2 DEF OrderlyReports
<1>11. SessionOrderly'
  BY <1>3, <1>7, <1>8, <1>9, <1>10, BecomeIsOrderly
<1>12. call' = v.call
  BY <1>7, <1>8 DEF Become
<1>13. QED
  BY <1>4, <1>11, <1>12


LEMMA WithdrawIsOrderly ==
  ASSUME SessionAlways, SessionOrderly, Withdraw
  PROVE  /\ SessionOrderly'
         /\ processCall \in Own /\ processCall' = None
         /\ call[processCall].state = "queued" /\ call'[processCall].state = "done"
         /\ \A d \in Own \ {processCall} : call'[d] = call[d]
<1> DEFINE u == Withdrawn(World)
           v == Report(u, {processCall})
           x == [v EXCEPT !.processCall = None]
<1>1. /\ Orderly(World) /\ RegistrationsKnown(World) /\ OrderlyReports(World)
      /\ SessionWorld(World) /\ World.call = call /\ World.auth = auth
      /\ World.processCall = processCall /\ World.proxy = proxy /\ World.reports = reports
  BY WorldOfSession, SessionIsOrderly
<1>2. processCall \in ProcessCall /\ processCall \in Own /\ processCall \in Call
        /\ processCall \notin Reg /\ processCall # None /\ ~call[processCall].tried
  BY <1>1, SessionSetsOfCalls, ProxyOfCall DEF Withdraw, Canceled, SessionWorld
<1>3. call[processCall].state = "queued"
  BY <1>1, <1>2 DEF OrderlyReports, Orderly, OrderlyCalls
<1>4. u = Finished(World, processCall)
  BY <1>1, <1>3 DEF Withdrawn
<1>5. Become(x)
  BY <1>1 DEF Withdraw, Withdrawn
<1> HIDE DEF u
<1>6. /\ SessionWorld(u) /\ u.manager = World.manager /\ u.proxy = proxy
      /\ u.auth = auth /\ u.reports = reports
      /\ u.call[processCall] = DoneCall
      /\ \A d \in Call \ {processCall} : u.call[d] = call[d]
  BY <1>1, <1>2, <1>4, FinishedEffect
<1>7. /\ SessionWorld(v) /\ v.manager = u.manager /\ v.proxy = u.proxy /\ v.call = u.call
      /\ v.auth = u.auth
      /\ \A d \in Own : v.reports[d] =
           IF d \in {processCall} THEN u.reports[d] + 1 ELSE u.reports[d]
  BY <1>6, ReportEffect
<1> HIDE DEF v
<1>8. /\ x.manager = v.manager /\ x.proxy = v.proxy /\ x.call = v.call /\ x.auth = v.auth
      /\ x.processCall = None /\ x.reports = v.reports
  BY <1>7, AssignmentEffect
<1> HIDE DEF x
<1>9. Orderly(x)
  <2>1. /\ x.manager = World.manager /\ x.proxy = World.proxy
        /\ x.call[processCall].state = "done"
        /\ \A d \in Call \ {processCall} : x.call[d] = World.call[d]
    BY <1>1, <1>6, <1>7, <1>8, BlankCalls
  <2>2. OrderlyConnection(x) /\ OrderlyProxies(x)
    BY <1>1, <2>1 DEF Orderly, OrderlyConnection, OrderlyProxies
  <2>3. OrderlyCalls(x)
    BY <1>1, <2>1 DEF Orderly, OrderlyCalls
  <2>4. OrderlyRegistrations(x)
    <3>1. \A r \in Reg : x.call[r] = World.call[r]
      BY <1>2, <2>1, ProxyOfCall
    <3>2. QED
      BY <1>1, <2>1, <3>1 DEF Orderly, OrderlyRegistrations
  <2>5. OrderlyAnswers(x)
    BY <1>1, <2>1, ProxyOfCall DEF Orderly, OrderlyAnswers
  <2>6. QED
    BY <2>2, <2>3, <2>4, <2>5 DEF Orderly
<1>10. RegistrationsKnown(x)
  BY <1>1, <1>2, <1>6, <1>7, <1>8, ProxyOfCall DEF RegistrationsKnown
<1>11. OrderlyReports(x)
  <2>1. /\ x.call[processCall].state = "done"
        /\ \A d \in Own \ {processCall} : x.call[d] = call[d]
    BY <1>6, <1>7, <1>8, BlankCalls, ProxyOfCall
  <2>2. \A d \in Own : x.reports[d] = IF d = processCall THEN reports[d] + 1 ELSE reports[d]
    BY <1>6, <1>7, <1>8
  <2>3. QED
    BY <1>1, <1>3, <1>8, <2>1, <2>2 DEF OrderlyReports
<1>12. SessionOrderly'
  BY <1>5, <1>6, <1>7, <1>8, <1>9, <1>10, <1>11, BecomeIsOrderly
<1>13. call' = u.call /\ processCall' = None
  BY <1>5, <1>7, <1>8 DEF Become
<1>14. QED
  BY <1>2, <1>3, <1>6, <1>12, <1>13, BlankCalls, ProxyOfCall

\* Which answers a session in order gets
LEMMA AnswersInOrder ==
  ASSUME SessionAlways, SessionOrderly,
         NEW c \in Call, NEW answer \in Answer, MayAnswer(World, c, answer)
  PROVE  /\ call[c].state = "sent" /\ answer \in call[c].answers
         /\ c \in Reg => /\ answer \in {"success", "error"} /\ auth
                         /\ ~Retried(World, c, answer)
                         /\ proxy[Main].path = "none"
                         /\ \A d \in Own : call[d].state # "sent"
         /\ c \in Own => /\ answer \in {"success", "error", "UnknownObject"}
                         /\ Retried(World, c, answer) => proxy[Main].path = "none"
                         /\ ~Retried(World, c, answer) =>
                              /\ proxy[Main].path # "none" /\ ~auth
                              /\ answer = "UnknownObject" => gone
<1>1. /\ Orderly(World) /\ RegistrationsKnown(World) /\ World.call = call
      /\ World.auth = auth /\ World.proxy = proxy /\ IsWorld(World)
      /\ auth => proxy[Main].path = "none"
  BY WorldOfSession, SessionIsOrderly
<1>2. call[c].state = "sent" /\ answer \in call[c].answers
  BY <1>1 DEF MayAnswer
<1>3. ASSUME c \in Reg
      PROVE  /\ answer \in {"success", "error"} /\ auth /\ ~Retried(World, c, answer)
             /\ proxy[Main].path = "none" /\ \A d \in Own : call[d].state # "sent"
  <2>1. proxy[Main].path = "none" /\ call[c].answers \subseteq {"success", "error"} /\ auth
    BY <1>1, <1>2, <1>3 DEF Orderly, OrderlyRegistrations, RegistrationsKnown
  <2>2. answer \in {"success", "error"} /\ answer \notin {"UnknownObject", "Disconnected"}
    BY <1>2, <2>1
  <2>3. ASSUME NEW d \in Own, call[d].state = "sent"
        PROVE  FALSE
    <3>1. call[d].destroyed /\ call[d].answers = {"UnknownObject"}
      BY <1>1, <2>1, <2>3 DEF Orderly, OrderlyAnswers
    <3>2. call[d].answers \cap {"UnknownObject", "Disconnected"} = {}
      BY <1>1, <1>3, <2>2, <2>3, <3>1 DEF MayAnswer
    <3>3. QED
      BY <3>1, <3>2
  <2>4. QED
    BY <2>1, <2>2, <2>3 DEF Retried
<1>4. ASSUME c \in Own
      PROVE  /\ answer \in {"success", "error", "UnknownObject"}
             /\ Retried(World, c, answer) => proxy[Main].path = "none"
             /\ ~Retried(World, c, answer) =>
                  /\ proxy[Main].path # "none" /\ ~auth
                  /\ answer = "UnknownObject" => gone
  <2>1. /\ proxy[Main].path = "none" => call[c].destroyed /\ call[c].answers = {"UnknownObject"}
        /\ proxy[Main].path = "live" =>
             ~call[c].destroyed /\ call[c].answers = {"success", "error"}
        /\ proxy[Main].path = "dead" =>
             ~call[c].destroyed /\ call[c].answers \subseteq {"success", "error", "UnknownObject"}
        /\ proxy[Main].path \in {"none", "live", "dead"}
    BY <1>1, <1>2, <1>4 DEF Orderly, OrderlyAnswers, OrderlyProxies
  <2>2. answer \in {"success", "error", "UnknownObject"}
    BY <1>2, <2>1
  <2>3. Retried(World, c, answer) = (call[c].destroyed /\ answer \in {"UnknownObject", "Disconnected"})
    BY <1>1 DEF Retried
  <2>4. (proxy[Main].path = "dead") = gone
    BY DEF SessionOrderly
  <2>5. proxy[Main].path = "none" => call[c].destroyed /\ answer = "UnknownObject"
    BY <1>2, <2>1
  <2>6. answer = "UnknownObject" => proxy[Main].path # "live"
    BY <1>2, <2>1
  <2>7. QED
    BY <1>1, <2>1, <2>2, <2>3, <2>4, <2>5, <2>6
<1>5. QED
  BY <1>2, <1>3, <1>4

\* A call of the session ends, and its proxy is as it was.
LEMMA EndedIsOrderly ==
  ASSUME NEW w, SessionWorld(w), Orderly(w), RegistrationsKnown(w), NEW c \in Own,
         NEW v, v.manager = w.manager, v.proxy = w.proxy, v.auth = w.auth,
         v.call[c] = DoneCall, \A d \in Call \ {c} : v.call[d] = w.call[d]
  PROVE  Orderly(v) /\ RegistrationsKnown(v)
<1>1. c \in Call /\ c \notin Reg /\ v.call[c].state = "done"
  BY ProxyOfCall, BlankCalls
<1>2. OrderlyConnection(v) /\ OrderlyProxies(v)
  BY DEF Orderly, OrderlyConnection, OrderlyProxies
<1>3. OrderlyCalls(v)
  BY <1>1 DEF Orderly, OrderlyCalls
<1>4. \A r \in Reg : v.call[r] = w.call[r]
  BY <1>1, ProxyOfCall
<1>5. OrderlyRegistrations(v) /\ RegistrationsKnown(v)
  BY <1>4 DEF Orderly, OrderlyRegistrations, RegistrationsKnown
<1>6. OrderlyAnswers(v)
  BY <1>1, ProxyOfCall DEF Orderly, OrderlyAnswers
<1>7. QED
  BY <1>2, <1>3, <1>5, <1>6 DEF Orderly


LEMMA OwnErrorIsOrderly ==
  ASSUME SessionAlways, SessionOrderly, NEW c \in Own, ~auth,
         call[c].state = "sent", Become(Finished(ErrorSlot(World, c), c))
  PROVE  /\ SessionOrderly' /\ processCall' = None
         /\ call'[c].state = "done" /\ \A d \in Own \ {c} : call'[d] = call[d]
<1> DEFINE u == ErrorSlot(World, c)
           v == Finished(u, c)
<1>1. /\ Orderly(World) /\ RegistrationsKnown(World) /\ OrderlyReports(World)
      /\ SessionWorld(World) /\ World.call = call /\ World.auth = auth
      /\ World.proxy = proxy /\ World.reports = reports
  BY WorldOfSession, SessionIsOrderly
<1>2. c \in Call /\ c \notin Reg
  BY ProxyOfCall
<1>3. /\ SessionWorld(u) /\ u.manager = World.manager /\ u.auth = FALSE
      /\ u.processCall = None /\ u.proxy = proxy /\ u.call = call
      /\ \A d \in Own : u.reports[d] = IF d = c THEN reports[d] + 1 ELSE reports[d]
  <2>1. /\ SessionWorld(u) /\ u.manager = World.manager /\ u.auth = FALSE
        /\ u.processCall = None
        /\ ~World.auth =>
              /\ u.proxy = World.proxy /\ u.call = World.call
              /\ \A d \in Own :
                   u.reports[d] = IF d = c THEN World.reports[d] + 1 ELSE World.reports[d]
    <3>1. ErrorSlotTo(World, c, u)
      BY <1>1, <1>2, ErrorSlotEffect
    <3> HIDE DEF u
    <3>2. QED
      BY <3>1 DEF ErrorSlotTo
  <2>2. ~World.auth
    BY <1>1
  <2> HIDE DEF u
  <2>3. QED
    BY <1>1, <2>1, <2>2
<1> HIDE DEF u
<1>4. /\ SessionWorld(v)
      /\ v.manager = u.manager /\ v.auth = u.auth
      /\ v.processCall = u.processCall /\ v.reports = u.reports
      /\ \A d \in Call \ {c} : v.call[d] = u.call[d]
      /\ v.call[c] = DoneCall /\ v.proxy = u.proxy
  BY <1>2, <1>3, FinishedEffect
<1>5. Become(v)
  BY DEF u
<1> HIDE DEF v
<1>6. World.auth = FALSE
  BY <1>1 DEF SessionWorld
<1>7. Orderly(v) /\ RegistrationsKnown(v)
  <2>1. /\ v.manager = World.manager /\ v.proxy = World.proxy /\ v.auth = World.auth
        /\ v.call[c] = DoneCall /\ \A d \in Call \ {c} : v.call[d] = World.call[d]
    BY <1>1, <1>3, <1>4, <1>6
  <2>2. QED
    BY <1>1, <2>1, EndedIsOrderly
<1>8. v.call[c].state = "done" /\ \A d \in Own \ {c} : v.call[d] = call[d]
  BY <1>3, <1>4, BlankCalls, ProxyOfCall
<1>9. OrderlyReports(v)
  BY <1>1, <1>3, <1>4, <1>8 DEF OrderlyReports
<1>10. SessionOrderly'
  BY <1>3, <1>4, <1>5, <1>7, <1>9, BecomeIsOrderly
<1>11. QED
  BY <1>3, <1>4, <1>5, <1>8, <1>10 DEF Become

LEMMA OwnSuccessIsOrderly ==
  ASSUME SessionAlways, SessionOrderly, NEW c \in Own,
         call[c].state = "sent", Become(Finished(Succeeded(World, c), c))
  PROVE  /\ SessionOrderly'
         /\ processCall' = IF c \in ProcessCall THEN None ELSE processCall
         /\ call'[c].state = "done" /\ \A d \in Own \ {c} : call'[d] = call[d]
<1> DEFINE u == Succeeded(World, c)
           v == Finished(u, c)
<1>1. /\ Orderly(World) /\ RegistrationsKnown(World) /\ OrderlyReports(World)
      /\ SessionWorld(World) /\ World.call = call /\ World.auth = auth
      /\ World.proxy = proxy /\ World.reports = reports /\ World.processCall = processCall
  BY WorldOfSession, SessionIsOrderly
<1>2. c \in Call /\ c \notin Reg
  BY ProxyOfCall
<1>3. /\ SessionWorld(u) /\ u.manager = World.manager /\ u.auth = World.auth
      /\ u.processCall = IF c \in ProcessCall THEN None ELSE processCall
      /\ u.proxy = proxy /\ u.call = call
      /\ \A d \in Own : u.reports[d] =
           IF d = c /\ c \notin CancelCall THEN reports[d] + 1 ELSE reports[d]
  BY <1>1, SucceededEffect
<1> HIDE DEF u
<1>4. /\ SessionWorld(v)
      /\ v.manager = u.manager /\ v.auth = u.auth
      /\ v.processCall = u.processCall /\ v.reports = u.reports
      /\ \A d \in Call \ {c} : v.call[d] = u.call[d]
      /\ v.call[c] = DoneCall /\ v.proxy = u.proxy
  BY <1>2, <1>3, FinishedEffect
<1>5. Become(v)
  BY DEF u
<1> HIDE DEF v
<1>6. Orderly(v) /\ RegistrationsKnown(v)
  BY <1>1, <1>3, <1>4, EndedIsOrderly
<1>7. v.call[c].state = "done" /\ \A d \in Own \ {c} : v.call[d] = call[d]
  BY <1>3, <1>4, BlankCalls, ProxyOfCall
<1>8. OrderlyReports(v)
  <2>1. \A d \in Own \ CancelCall : v.reports[d] = IF v.call[d].state = "done" THEN 1 ELSE 0
    BY <1>1, <1>3, <1>4, <1>7 DEF OrderlyReports
  <2>2. ASSUME v.processCall # None
        PROVE  v.call[v.processCall].state \in {"queued", "sent"}
    <3>1. v.processCall = processCall /\ c \notin ProcessCall /\ processCall # None
      BY <1>3, <1>4, <2>2
    <3>2. processCall \in Own \ {c}
      BY <3>1, SessionSetsOfCalls DEF SessionAlways, SessionTypeOK
    <3>3. QED
      BY <1>1, <1>7, <3>1, <3>2 DEF OrderlyReports
  <2>3. QED
    BY <2>1, <2>2 DEF OrderlyReports
<1>9. SessionOrderly'
  BY <1>3, <1>4, <1>5, <1>6, <1>8, BecomeIsOrderly
<1>10. QED
  BY <1>3, <1>4, <1>5, <1>7, <1>9 DEF Become

\* The registration ends, and with it the only proxy of its kind.
LEMMA RegistrationEnds ==
  ASSUME NEW w, SessionWorld(w), NEW c \in Reg, NEW v,
         v.manager = w.manager, v.call[c] = NoCall, v.proxy[c] = NoProxy,
         \A d \in Call \ {c} : v.call[d] = w.call[d],
         \A p \in Proxy \ {c} : v.proxy[p] = w.proxy[p],
         OrderlyConnection(w), OrderlyProxies(w), OrderlyCalls(w), OrderlyAnswers(w),
         \A r \in Reg \ {c} : w.call[r].state = "none"
  PROVE  Orderly(v) /\ RegistrationsKnown(v)
<1>1. c \in Call /\ c \in Proxy /\ c # Main /\ c \notin Own /\ ProxyOf(c) = c
  BY ProxyOfCall
<1>2. v.proxy[Main] = w.proxy[Main] /\ \A d \in Own : v.call[d] = w.call[d]
  BY <1>1, ProxyOfCall
<1>3. \A r \in Reg : v.call[r].state = "none" /\ v.proxy[r].status = "none"
  BY BlankCalls, ProxyOfCall DEF SessionWorld
<1>4. OrderlyConnection(v)
  BY DEF OrderlyConnection
<1>5. OrderlyProxies(v)
  BY <1>2, <1>3, BlankCalls DEF OrderlyProxies, Proxy
<1>6. OrderlyCalls(v)
  BY <1>2, <1>3, ProxyOfCall DEF OrderlyCalls, Call
<1>7. OrderlyRegistrations(v) /\ RegistrationsKnown(v)
  BY <1>3 DEF OrderlyRegistrations, RegistrationsKnown
<1>8. OrderlyAnswers(v)
  BY <1>2 DEF OrderlyAnswers
<1>9. QED
  BY <1>4, <1>5, <1>6, <1>7, <1>8 DEF Orderly

LEMMA RegistrationErrorIsOrderly ==
  ASSUME SessionAlways, SessionOrderly, NEW c \in Reg, auth, call[c].state = "sent",
         \A d \in Own : call[d].state # "sent",
         Become(Finished(ErrorSlot(World, c), c))
  PROVE  /\ SessionOrderly' /\ processCall' = None
         /\ \A d \in Own : call'[d].state \notin {"queued", "failing", "sent"}
                           /\ (call'[d].state = "none") = (call[d].state = "none")
<1> DEFINE u == ErrorSlot(World, c)
           v == Finished(u, c)
<1>1. /\ Orderly(World) /\ RegistrationsKnown(World) /\ OrderlyReports(World)
      /\ SessionWorld(World) /\ World.call = call /\ World.auth = auth
      /\ World.proxy = proxy /\ World.reports = reports
      /\ proxy[Main].path = "none"
  BY WorldOfSession, SessionIsOrderly
<1>2. c \in Call
  BY ProxyOfCall
<1>3. /\ SessionWorld(u) /\ u.manager = World.manager /\ u.auth = FALSE
      /\ u.processCall = None
      /\ \A r \in Reg : u.proxy[r] = proxy[r] /\ u.call[r] = call[r]
      /\ u.proxy[Main].path = "none" /\ u.proxy[Main].status = "Incomplete"
      /\ u.proxy[Main].connected = proxy[Main].connected
      /\ \A d \in Own :
           /\ u.call[d] = IF call[d].state = "queued" THEN DoneCall ELSE call[d]
           /\ u.reports[d] = IF call[d].state = "queued" THEN reports[d] + 1 ELSE reports[d]
  <2>1. /\ SessionWorld(u) /\ u.manager = World.manager /\ u.auth = FALSE
        /\ u.processCall = None
        /\ \A r \in Reg : u.proxy[r] = World.proxy[r] /\ u.call[r] = World.call[r]
        /\ World.auth =>
             /\ u.proxy[Main].path = "none" /\ u.proxy[Main].status = "Incomplete"
             /\ u.proxy[Main].connected = World.proxy[Main].connected
             /\ \A d \in Own :
                  /\ u.call[d] = IF World.call[d].state = "queued" THEN DoneCall ELSE World.call[d]
                  /\ u.reports[d] = IF World.call[d].state = "queued" THEN World.reports[d] + 1
                                    ELSE World.reports[d]
    <3>1. ErrorSlotTo(World, c, u)
      BY <1>1, <1>2, ErrorSlotEffect
    <3> HIDE DEF u
    <3>2. QED
      BY <3>1 DEF ErrorSlotTo
  <2>2. World.auth
    BY <1>1
  <2> HIDE DEF u
  <2>3. QED
    BY <1>1, <2>1, <2>2
<1> HIDE DEF u
<1>4. /\ SessionWorld(v)
      /\ v.manager = u.manager /\ v.auth = u.auth
      /\ v.processCall = u.processCall /\ v.reports = u.reports
      /\ \A d \in Call \ {c} : v.call[d] = u.call[d]
      /\ \A p \in Proxy \ {c} : v.proxy[p] = u.proxy[p]
      /\ v.call[c] = NoCall /\ v.proxy[c] = NoProxy
  BY <1>2, <1>3, FinishedEffect
<1>5. Become(v)
  BY DEF u
<1> HIDE DEF v
<1>6. \A d \in Own : /\ u.call[d].state = IF call[d].state = "queued" THEN "done" ELSE call[d].state
                     /\ u.call[d].state \notin {"queued", "failing", "sent"}
  BY <1>1, <1>3, BlankCalls, ProxyOfCall DEF Orderly, OrderlyCalls
<1>7. OrderlyConnection(u) /\ OrderlyProxies(u) /\ OrderlyCalls(u) /\ OrderlyAnswers(u)
  <2>1. OrderlyConnection(u)
    BY <1>1, <1>3 DEF Orderly, OrderlyConnection
  <2>2. OrderlyProxies(u)
    <3>1. World.proxy[Main].status # "none" /\ Main \in Proxy
      BY <1>1, ProxyOfCall DEF SessionWorld, IsWorld
    <3>2. QED
      BY <1>1, <1>3, <3>1 DEF Orderly, OrderlyProxies, Proxy
  <2>3. OrderlyCalls(u)
    BY <1>1, <1>3, <1>6, ProxyOfCall DEF Orderly, OrderlyCalls, Call
  <2>4. OrderlyAnswers(u)
    BY <1>6 DEF OrderlyAnswers
  <2>5. QED
    BY <2>1, <2>2, <2>3, <2>4
<1>8. \A r \in Reg \ {c} : u.call[r].state = "none"
  BY <1>1, <1>3 DEF Orderly, OrderlyRegistrations
<1>9. Orderly(v) /\ RegistrationsKnown(v)
  BY <1>3, <1>4, <1>7, <1>8, RegistrationEnds
<1>10. \A d \in Own : v.call[d] = u.call[d]
  BY <1>4, ProxyOfCall
<1>11. OrderlyReports(v)
  BY <1>1, <1>3, <1>4, <1>6, <1>10 DEF OrderlyReports
<1>12. v.proxy[Main].path = "none"
  BY <1>3, <1>4, ProxyOfCall
<1>13. SessionOrderly'
  BY <1>5, <1>9, <1>11, <1>12, BecomeIsOrderly
<1>14. call' = v.call /\ processCall' = None
  BY <1>3, <1>4, <1>5 DEF Become
<1>15. QED
  BY <1>6, <1>10, <1>13, <1>14


LEMMA RegistrationSuccessIsOrderly ==
  ASSUME SessionAlways, SessionOrderly, NEW c \in Reg, auth, call[c].state = "sent",
         \A d \in Own : call[d].state # "sent",
         NEW u \in Authenticated(World), Become(Finished(u, c))
  PROVE  /\ SessionOrderly' /\ processCall' = processCall
         /\ \A d \in Own :
              \/ call'[d] = call[d]
              \/ call[d].state = "queued" /\ call'[d].state = "sent"
<1> DEFINE s == SetObjectPath(World, "live")
           v == Finished(u, c)
<1>1. /\ Orderly(World) /\ RegistrationsKnown(World) /\ OrderlyReports(World)
      /\ SessionWorld(World) /\ IsWorld(World) /\ World.call = call /\ World.auth = auth
      /\ World.proxy = proxy /\ World.reports = reports /\ World.processCall = processCall
      /\ World.manager = manager
      /\ proxy[Main].path = "none"
  BY WorldOfSession, SessionIsOrderly
<1>2. c \in Call /\ c \notin Own /\ Main \in Proxy /\ c # Main
  BY ProxyOfCall
<1>3. manager.connection # "none" /\ Connected(World) /\ proxy[Main].connected
  <2>1. manager.connection # "none"
    BY <1>1, <1>2 DEF Orderly, OrderlyCalls
  <2>2. proxy[Main].connected = (manager.connection # "none")
    BY <1>1, <1>2 DEF Orderly, OrderlyProxies, IsWorld
  <2>3. QED
    BY <1>1, <2>1, <2>2, OrderlyConnected
<1>4. /\ SessionWorld(u) /\ u.auth = FALSE /\ u = [s EXCEPT !.auth = FALSE]
  BY <1>1, <1>3, AuthenticatedEffect
<1>a. SessionWorld(u) /\ u.auth = FALSE
  BY <1>4
<1> DEFINE path == "live"
<1>5. path \in {"none", "daemon", "live", "dead"} /\ path = "live" /\ s = SetObjectPath(World, path)
  OBVIOUS
<1> HIDE DEF s, path
<1>6. /\ IsWorld(s) /\ s.manager = manager
      /\ \A r \in Reg : s.proxy[r] = proxy[r] /\ s.call[r] = call[r]
      /\ s.proxy[Main].path = path /\ s.proxy[Main].connected = proxy[Main].connected
      /\ s.proxy[Main].status =
           IF ~proxy[Main].connected \/ path = "none" THEN "Incomplete"
           ELSE IF Connected(World) THEN "Ready" ELSE "Invalid"
      /\ \A d \in Own :
           s.call[d] =
             IF call[d].state = "queued" /\ s.proxy[Main].status = "Ready" THEN Sent(s, Main)
             ELSE IF call[d].state = "sent" /\ proxy[Main].status = "Ready"
               THEN [call[d] EXCEPT !.destroyed = TRUE]
             ELSE call[d]
  BY <1>1, <1>5, SetObjectPathEffect
<1>7. SessionWorld(s) /\ s.processCall = processCall /\ s.reports = reports
  BY <1>1, <1>5, SessionPathEffect
<1>8. /\ u.manager = s.manager /\ u.proxy = s.proxy /\ u.call = s.call
      /\ u.processCall = processCall /\ u.reports = reports
  BY <1>4, <1>7, AssignmentEffect
<1>9. /\ SessionWorld(v)
      /\ v.manager = u.manager /\ v.auth = u.auth
      /\ v.processCall = u.processCall /\ v.reports = u.reports
      /\ \A d \in Call \ {c} : v.call[d] = u.call[d]
      /\ \A p \in Proxy \ {c} : v.proxy[p] = u.proxy[p]
      /\ v.call[c] = NoCall /\ v.proxy[c] = NoProxy
  BY <1>2, <1>a, FinishedEffect
<1>10. Become(v)
  OBVIOUS
<1> HIDE DEF v
<1>11. s.proxy[Main].status = "Ready" /\ s.proxy[Main].path = "live"
         /\ s.proxy[Main].connected
  BY <1>3, <1>5, <1>6
<1>12. Connected(s)
  BY <1>1, <1>3, <1>6 DEF Connected
<1>13. ASSUME NEW d \in Own
       PROVE  \/ /\ call[d].state = "queued" /\ s.call[d].state = "sent" /\ s.call[d].tried
                 /\ ~s.call[d].destroyed /\ s.call[d].answers = {"success", "error"}
              \/ /\ s.call[d] = call[d]
                 /\ s.call[d].state \notin {"queued", "sent", "failing"}
  <2>1. call[d].state # "failing" /\ call[d].state # "sent"
    BY <1>1, ProxyOfCall DEF Orderly, OrderlyCalls
  <2>2. call[d].state = "queued" => s.call[d] = Sent(s, Main)
    BY <1>6, <1>11
  <2>3. call[d].state # "queued" => s.call[d] = call[d]
    BY <1>6, <2>1
  <2>4. QED
    BY <1>11, <1>12, <2>1, <2>2, <2>3, SentCall
<1>14. OrderlyConnection(s) /\ OrderlyProxies(s) /\ OrderlyCalls(s) /\ OrderlyAnswers(s)
  <2>1. OrderlyConnection(s)
    BY <1>1, <1>6 DEF Orderly, OrderlyConnection
  <2>2. OrderlyProxies(s)
    <3>1. ASSUME NEW q \in Reg, s.proxy[q].status # "none"
          PROVE  /\ s.proxy[q].connected = (s.manager.connection # "none")
                 /\ s.proxy[q].status = IF s.proxy[q].connected /\ s.proxy[q].path # "none"
                                          THEN "Ready" ELSE "Incomplete"
                 /\ s.proxy[q].path = "daemon"
      BY <1>1, <1>6, <3>1, ProxyOfCall DEF Orderly, OrderlyProxies
    <3>2. /\ s.proxy[Main].connected = (s.manager.connection # "none")
          /\ s.proxy[Main].status = IF s.proxy[Main].connected /\ s.proxy[Main].path # "none"
                                     THEN "Ready" ELSE "Incomplete"
          /\ s.manager.connection # "none"
      <4>1. s.proxy[Main].connected = TRUE /\ s.manager.connection # "none"
        BY <1>2, <1>3, <1>6, <1>11 DEF IsWorld, ProxyType
      <4>2. QED
        BY <1>11, <4>1
    <3>3. QED
      BY <1>11, <3>1, <3>2 DEF OrderlyProxies, Proxy
  <2>3. OrderlyCalls(s)
    BY <1>1, <1>3, <1>6, <1>13, ProxyOfCall DEF Orderly, OrderlyCalls, Call
  <2>4. OrderlyAnswers(s)
    BY <1>11, <1>13 DEF OrderlyAnswers
  <2>5. QED
    BY <2>1, <2>2, <2>3, <2>4
<1>15. \A r \in Reg \ {c} : u.call[r].state = "none"
  BY <1>1, <1>6, <1>8 DEF Orderly, OrderlyRegistrations
<1>16. OrderlyConnection(u) /\ OrderlyProxies(u) /\ OrderlyCalls(u) /\ OrderlyAnswers(u)
  BY <1>8, <1>14 DEF OrderlyConnection, OrderlyProxies, OrderlyCalls, OrderlyAnswers
<1>17. Orderly(v) /\ RegistrationsKnown(v)
  BY <1>a, <1>9, <1>15, <1>16, RegistrationEnds
<1>18. \A d \in Own : v.call[d] = s.call[d]
  BY <1>2, <1>8, <1>9, ProxyOfCall
<1>19. OrderlyReports(v)
  <2>1. \A d \in Own \ CancelCall : v.reports[d] = IF v.call[d].state = "done" THEN 1 ELSE 0
    BY <1>1, <1>8, <1>9, <1>13, <1>18 DEF OrderlyReports
  <2>2. ASSUME v.processCall # None
        PROVE  v.call[v.processCall].state \in {"queued", "sent"}
    <3>1. v.processCall = processCall /\ processCall \in Own
      BY <1>8, <1>9, <2>2, SessionSetsOfCalls DEF SessionAlways, SessionTypeOK
    <3>2. call[processCall].state \in {"queued", "sent"}
      BY <1>1, <2>2, <3>1 DEF OrderlyReports
    <3>3. QED
      BY <1>13, <1>18, <3>1, <3>2
  <2>3. QED
    BY <2>1, <2>2 DEF OrderlyReports
<1>20. v.proxy[Main].path = "live"
  BY <1>2, <1>8, <1>9, <1>11
<1>21. SessionOrderly'
  BY <1>10, <1>17, <1>19, <1>20, BecomeIsOrderly
<1>22. call' = v.call /\ processCall' = processCall
  BY <1>8, <1>9, <1>10 DEF Become
<1>23. QED
  BY <1>13, <1>18, <1>21, <1>22

LEMMA RetryIsOrderly ==
  ASSUME SessionAlways, SessionOrderly, NEW c \in Own, RegFree, proxy[Main].path = "none",
         call[c].state = "sent", Become(Requeued(World, c))
  PROVE  /\ SessionOrderly' /\ processCall' = processCall
         /\ call'[c].state = "queued" /\ \A d \in Own \ {c} : call'[d] = call[d]
<1> DEFINE v == Requeued(World, c)
<1>1. /\ Orderly(World) /\ RegistrationsKnown(World) /\ OrderlyReports(World)
      /\ SessionWorld(World) /\ World.call = call /\ World.auth = auth
      /\ World.proxy = proxy /\ World.reports = reports /\ World.processCall = processCall
  BY WorldOfSession, SessionIsOrderly
<1>2. MayRegister(World) /\ c \in Call
  BY <1>1, ProxyOfCall DEF RegFree, MayRegister
<1>3. /\ v.processCall = processCall /\ v.reports = reports
      /\ v.proxy[Main].path = proxy[Main].path
  BY <1>1, <1>2, RequeuedEffect
<1>4. /\ Orderly(v) /\ RegistrationsKnown(v)
      /\ v.call[c].state = "queued"
      /\ \A d \in Own \ {c} : v.call[d] = call[d]
  BY <1>1, <1>2, RequeuedOrderly
<1>5. Become(v)
  OBVIOUS
<1> HIDE DEF v
<1>6. OrderlyReports(v)
  <2>1. \A d \in Own : (v.call[d].state = "done") = (call[d].state = "done")
    BY <1>4
  <2>2. ASSUME v.processCall # None
        PROVE  v.call[v.processCall].state \in {"queued", "sent"}
    <3>1. v.processCall = processCall /\ processCall \in Own
      BY <1>3, <2>2, SessionSetsOfCalls DEF SessionAlways, SessionTypeOK
    <3>2. call[processCall].state \in {"queued", "sent"}
      BY <1>1, <2>2, <3>1 DEF OrderlyReports
    <3>3. QED
      BY <1>4, <3>1, <3>2
  <2>3. QED
    BY <1>1, <1>3, <2>1, <2>2 DEF OrderlyReports
<1>7. SessionOrderly'
  BY <1>3, <1>4, <1>5, <1>6, BecomeIsOrderly
<1>8. QED
  BY <1>3, <1>4, <1>5, <1>7 DEF Become


LEMMA ObjectGoneIsOrderly ==
  ASSUME SessionAlways, SessionOrderly, ObjectGone
  PROVE  /\ SessionOrderly' /\ processCall' = processCall
         /\ \A d \in Own : call'[d].state = call[d].state
<1> DEFINE A == {"UnknownObject"}
           m == [manager EXCEPT !.ends = @ - 1]
<1>1. /\ Orderly(World) /\ RegistrationsKnown(World) /\ OrderlyReports(World)
      /\ IsWorld(World) /\ World.call = call /\ World.auth = auth
      /\ World.proxy = proxy /\ World.reports = reports /\ World.processCall = processCall
      /\ World.manager = manager
  BY WorldOfSession, SessionIsOrderly
<1>2. /\ proxy[Main].path = "live"
      /\ manager' = m /\ proxy' = [proxy EXCEPT ![Main].path = "dead"]
      /\ call' = Lost(call, Own, A) /\ gone' = TRUE
      /\ UNCHANGED <<auth, processCall, reports, givenUp>>
  BY DEF ObjectGone
<1>3. /\ m.connection = manager.connection /\ m.lost = manager.lost
      /\ m.activation = manager.activation /\ m.service = manager.service
  BY <1>1 DEF IsWorld, ManagerType
<1>4. /\ proxy'[Main].path = "dead"
      /\ proxy'[Main].status = proxy[Main].status
      /\ proxy'[Main].connected = proxy[Main].connected
      /\ \A r \in Reg : proxy'[r] = proxy[r]
  BY <1>1, <1>2, ProxyOfCall DEF IsWorld, ProxyType
<1>5. \A d \in Call :
        /\ call'[d].state = call[d].state /\ call'[d].tried = call[d].tried
        /\ call'[d].destroyed = call[d].destroyed
        /\ call'[d].answers =
             IF d \in Own /\ call[d].state = "sent" /\ call[d].answers # {"Disconnected"}
               THEN call[d].answers \cup A ELSE call[d].answers
  <2>1. /\ call \in [Call -> CallType]
        /\ \A d \in Call : (call[d].state = "sent") = (call[d].answers # {})
    BY <1>1 DEF IsWorld
  <2>2. A \in SUBSET Answer /\ A # {}
    BY DEF Answer
  <2> HIDE DEF A
  <2> DEFINE x == Lost(call, Own, A)
  <2>3. /\ x \in [Call -> CallType]
        /\ \A d \in Call :
             /\ x[d].state = call[d].state /\ x[d].tried = call[d].tried
             /\ x[d].destroyed = call[d].destroyed
             /\ x[d].answers =
                  IF d \in Own /\ call[d].state = "sent" /\ call[d].answers # {"Disconnected"}
                    THEN call[d].answers \cup A ELSE call[d].answers
             /\ (x[d].state = "sent") = (x[d].answers # {})
    <3>1. LostTo(call, Own, A, x)
      BY <2>1, <2>2, LostEffect
    <3> HIDE DEF x
    <3>2. QED
      BY <3>1 DEF LostTo
  <2> HIDE DEF x
  <2>4. call' = x
    BY <1>2 DEF x
  <2>5. QED
    BY <2>3, <2>4
<1> HIDE DEF m
<1>6. /\ World'.manager = m /\ World'.proxy = proxy' /\ World'.call = call'
      /\ World'.auth = auth /\ World'.processCall = processCall
      /\ World'.reports = reports
  BY <1>2 DEF World
<1>7. \A r \in Reg : call[r].state = "none" /\ call'[r].state = "none"
  BY <1>1, <1>2, <1>5, ProxyOfCall DEF Orderly, OrderlyRegistrations
<1>8. OrderlyConnection(World')
  BY <1>1, <1>3, <1>6 DEF Orderly, OrderlyConnection
<1>9. OrderlyProxies(World')
  <2>1. proxy[Main].status # "none" /\ manager.connection # "none"
    BY <1>1, <1>2 DEF Orderly, OrderlyProxies, IsWorld
  <2>2. ASSUME NEW r \in Reg, proxy'[r].status # "none"
        PROVE  /\ proxy'[r].connected = (m.connection # "none")
               /\ proxy'[r].status = IF proxy'[r].connected /\ proxy'[r].path # "none"
                                      THEN "Ready" ELSE "Incomplete"
               /\ proxy'[r].path = "daemon"
    BY <1>1, <1>3, <1>4, <2>2, ProxyOfCall DEF Orderly, OrderlyProxies
  <2>3. /\ proxy'[Main].connected = (m.connection # "none")
        /\ proxy'[Main].status = IF proxy'[Main].connected /\ proxy'[Main].path # "none"
                                   THEN "Ready" ELSE "Incomplete"
    BY <1>1, <1>2, <1>3, <1>4, <2>1, ProxyOfCall DEF Orderly, OrderlyProxies
  <2>4. QED
    BY <1>3, <1>4, <1>6, <2>1, <2>2, <2>3 DEF OrderlyProxies, Proxy
<1>10. OrderlyCalls(World')
  <2>1. ASSUME NEW d \in Own
        PROVE  /\ call'[d].state # "failing"
               /\ call'[d].state = "queued" => proxy'[Main].status = "Incomplete"
               /\ call'[d].state = "sent" => m.connection # "none" /\ call'[d].tried
    <3>1. /\ call[d].state # "failing"
          /\ call[d].state = "queued" => proxy[Main].status = "Incomplete"
          /\ call[d].state = "sent" => manager.connection # "none" /\ call[d].tried
      BY <1>1, ProxyOfCall DEF Orderly, OrderlyCalls
    <3>2. call'[d].state = call[d].state /\ call'[d].tried = call[d].tried
      BY <1>5, ProxyOfCall
    <3>3. QED
      BY <1>3, <1>4, <3>1, <3>2
  <2>2. QED
    BY <1>6, <1>7, <2>1, ProxyOfCall DEF OrderlyCalls, Call
<1>11. OrderlyRegistrations(World')
  BY <1>1, <1>4, <1>6, <1>7 DEF Orderly, OrderlyRegistrations
<1>12. OrderlyAnswers(World')
  <2>1. ASSUME NEW d \in Own, call'[d].state = "sent"
        PROVE  /\ ~call'[d].destroyed
               /\ call'[d].answers \subseteq {"success", "error", "UnknownObject"}
    <3>1. /\ call'[d].state = call[d].state /\ call'[d].destroyed = call[d].destroyed
          /\ \/ call'[d].answers = call[d].answers \cup A
             \/ call'[d].answers = call[d].answers
      BY <1>5, ProxyOfCall
    <3>2. ~call[d].destroyed /\ call[d].answers = {"success", "error"}
      BY <1>1, <1>2, <2>1, <3>1 DEF Orderly, OrderlyAnswers
    <3>3. QED
      BY <3>1, <3>2
  <2>2. QED
    BY <1>4, <1>6, <2>1 DEF OrderlyAnswers
<1>13. RegistrationsKnown(World')
  BY <1>6, <1>7 DEF RegistrationsKnown
<1>14. OrderlyReports(World')
  <2>1. processCall # None => processCall \in Own
    BY SessionSetsOfCalls DEF SessionAlways, SessionTypeOK
  <2>2. \A d \in Own : call'[d].state = call[d].state
    BY <1>5, ProxyOfCall
  <2>3. QED
    BY <1>1, <1>6, <2>1, <2>2 DEF OrderlyReports
<1>15. SessionOrderly'
  BY <1>2, <1>4, <1>8, <1>9, <1>10, <1>11, <1>12, <1>13, <1>14 DEF Orderly, SessionOrderly
<1>16. QED
  BY <1>2, <1>5, <1>15, ProxyOfCall

LEMMA UnregisteredIsOrderly ==
  ASSUME SessionAlways, SessionOrderly, Unregistered
  PROVE  /\ SessionOrderly' /\ processCall' = processCall
         /\ \A d \in Own : call'[d].state = call[d].state
<1> DEFINE a == AfterReading(World)
           path == "none"
           v == SetObjectPath(a, path)
<1>1. /\ Orderly(World) /\ RegistrationsKnown(World) /\ OrderlyReports(World)
      /\ IsWorld(World) /\ World.call = call /\ World.auth = auth
      /\ World.proxy = proxy /\ World.reports = reports /\ World.processCall = processCall
      /\ World.manager = manager /\ SessionWorld(World)
  BY WorldOfSession, SessionIsOrderly
<1>2. proxy[Main].path = "dead" /\ Late(World) /\ Become(v)
  BY WorldOfSession DEF Unregistered
<1>3. /\ SessionWorld(a)
      /\ a.manager = manager /\ a.proxy = proxy /\ a.auth = auth
      /\ a.processCall = processCall /\ a.reports = reports
      /\ \A r \in Reg : a.call[r] = call[r]
      /\ \A d \in Own :
           /\ a.call[d].state = call[d].state
           /\ a.call[d].tried = call[d].tried
           /\ a.call[d].destroyed = call[d].destroyed
           /\ a.call[d].answers = call[d].answers \ {"success", "error"}
  BY <1>1, <1>2, AfterReadingEffect
<1>4. /\ manager.connection # "none" /\ proxy[Main].connected
      /\ proxy[Main].status = "Ready"
  BY <1>1, <1>2, ProxyOfCall DEF Orderly, OrderlyProxies, IsWorld
<1>5. path \in {"none", "daemon", "live", "dead"} /\ path = "none"
  OBVIOUS
<1> HIDE DEF a, path
<1>6. /\ IsWorld(v) /\ v.manager = a.manager
      /\ \A r \in Reg : v.proxy[r] = a.proxy[r] /\ v.call[r] = a.call[r]
      /\ v.proxy[Main].path = path /\ v.proxy[Main].connected = a.proxy[Main].connected
      /\ v.proxy[Main].status =
           IF ~a.proxy[Main].connected \/ path = "none" THEN "Incomplete"
           ELSE IF Connected(a) THEN "Ready" ELSE "Invalid"
      /\ \A d \in Own :
           v.call[d] =
             IF a.call[d].state = "queued" /\ v.proxy[Main].status = "Ready" THEN Sent(v, Main)
             ELSE IF a.call[d].state = "sent" /\ a.proxy[Main].status = "Ready"
               THEN [a.call[d] EXCEPT !.destroyed = TRUE]
             ELSE a.call[d]
  BY <1>3, <1>5, SetObjectPathEffect DEF SessionWorld
<1>7. v.auth = a.auth /\ v.processCall = a.processCall /\ v.reports = a.reports
  BY <1>3, <1>5, SessionPathEffect
<1> HIDE DEF v
<1>8. v.proxy[Main].path = "none" /\ v.proxy[Main].status = "Incomplete"
        /\ v.proxy[Main].connected
  BY <1>3, <1>4, <1>5, <1>6
<1>9. ASSUME NEW d \in Own
      PROVE  /\ v.call[d].state = call[d].state /\ v.call[d].tried = call[d].tried
             /\ call[d].state = "sent" =>
                  v.call[d].destroyed /\ v.call[d].answers = {"UnknownObject"}
  <2>1. a.call[d] \in CallType /\ v.call[d] \in CallType
        /\ (v.call[d].state = "sent") = (v.call[d].answers # {})
    BY <1>3, <1>6, ProxyOfCall DEF SessionWorld, IsWorld
  <2>2. /\ [a.call[d] EXCEPT !.destroyed = TRUE].state = a.call[d].state
        /\ [a.call[d] EXCEPT !.destroyed = TRUE].tried = a.call[d].tried
        /\ [a.call[d] EXCEPT !.destroyed = TRUE].answers = a.call[d].answers
        /\ [a.call[d] EXCEPT !.destroyed = TRUE].destroyed
    BY <2>1 DEF CallType
  <2>3. CASE call[d].state = "sent"
    <3>1. v.call[d] = [a.call[d] EXCEPT !.destroyed = TRUE]
      BY <1>3, <1>4, <1>6, <1>8, <2>3
    <3>2. call[d].answers \subseteq {"success", "error", "UnknownObject"}
      BY <1>1, <1>2, <2>3 DEF Orderly, OrderlyAnswers
    <3>3. /\ v.call[d].state = "sent" /\ v.call[d].destroyed /\ v.call[d].tried = call[d].tried
          /\ v.call[d].answers = call[d].answers \ {"success", "error"}
      BY <1>3, <2>2, <2>3, <3>1
    <3>4. v.call[d].answers # {}
      BY <2>1, <3>3
    <3>5. v.call[d].answers = {"UnknownObject"}
      BY <3>2, <3>3, <3>4
    <3>6. QED
      BY <2>3, <3>3, <3>5
  <2>4. CASE call[d].state # "sent"
    BY <1>3, <1>6, <1>8, <2>4
  <2>5. QED
    BY <2>3, <2>4
<1>10. \A r \in Reg : call[r].state = "none" /\ v.call[r].state = "none"
  BY <1>1, <1>2, <1>3, <1>6 DEF Orderly, OrderlyRegistrations
<1>11. \A r \in Reg : v.proxy[r] = proxy[r]
  BY <1>3, <1>6
<1>12. OrderlyConnection(v)
  BY <1>1, <1>3, <1>6 DEF Orderly, OrderlyConnection
<1>13. OrderlyProxies(v)
  <2>1. ASSUME NEW r \in Reg, v.proxy[r].status # "none"
        PROVE  /\ v.proxy[r].connected = (v.manager.connection # "none")
               /\ v.proxy[r].status = IF v.proxy[r].connected /\ v.proxy[r].path # "none"
                                        THEN "Ready" ELSE "Incomplete"
               /\ v.proxy[r].path = "daemon"
    BY <1>1, <1>3, <1>6, <1>11, <2>1, ProxyOfCall DEF Orderly, OrderlyProxies
  <2>2. v.proxy[Main].connected = (v.manager.connection # "none")
    BY <1>1, <1>3, <1>4, <1>6, ProxyOfCall DEF Orderly, OrderlyProxies, IsWorld
  <2>3. QED
    BY <1>8, <2>1, <2>2 DEF OrderlyProxies, Proxy
<1>14. OrderlyCalls(v)
  BY <1>1, <1>3, <1>6, <1>8, <1>9, <1>10, ProxyOfCall DEF Orderly, OrderlyCalls, Call
<1>15. OrderlyRegistrations(v) /\ RegistrationsKnown(v)
  BY <1>1, <1>10, <1>11 DEF Orderly, OrderlyRegistrations, RegistrationsKnown
<1>16. OrderlyAnswers(v)
  BY <1>8, <1>9 DEF OrderlyAnswers
<1>17. OrderlyReports(v)
  <2>1. processCall # None => processCall \in Own
    BY SessionSetsOfCalls DEF SessionAlways, SessionTypeOK
  <2>2. QED
    BY <1>1, <1>3, <1>7, <1>9, <2>1 DEF OrderlyReports
<1>18. SessionOrderly'
  BY <1>2, <1>12, <1>13, <1>14, <1>15, <1>16, <1>17, BecomeIsOrderly DEF Orderly
<1>19. QED
  BY <1>2, <1>3, <1>7, <1>9, <1>18 DEF Become

LEMMA ActivationsAreOrderly ==
  ASSUME SessionAlways, SessionOrderly,
         SessionActivationDone \/ \E ok \in BOOLEAN : SessionActivated(ok)
  PROVE  /\ SessionOrderly' /\ processCall' = processCall
         /\ \A d \in Own : call'[d].state = call[d].state
<1>1. /\ Orderly(World) /\ RegistrationsKnown(World) /\ OrderlyReports(World)
      /\ IsWorld(World) /\ World.call = call /\ World.auth = auth
      /\ World.proxy = proxy /\ World.reports = reports /\ World.processCall = processCall
      /\ World.manager = manager /\ SessionWorld(World)
  BY WorldOfSession, SessionIsOrderly
<1>2. ASSUME NEW ok \in BOOLEAN, SessionActivated(ok)
      PROVE  /\ SessionOrderly' /\ processCall' = processCall
             /\ \A d \in Own : call'[d].state = call[d].state
  <2> DEFINE m == [manager EXCEPT !.activation = IF ok THEN "done" ELSE "failed",
                                  !.daemon = @ \/ ok]
  <2>1. /\ m.connection = manager.connection /\ m.lost = manager.lost
        /\ m.service = manager.service
    BY <1>1 DEF IsWorld, ManagerType
  <2>2. /\ manager' = m /\ manager.activation = "asked"
        /\ UNCHANGED <<proxy, call, auth, processCall, gone, reports, givenUp>>
    <3>1. Activated(World, ok) = [World EXCEPT !.manager = m]
      BY DEF Activated, World
    <3> HIDE DEF m
    <3>2. Activated(World, ok).manager = m
      BY <3>1 DEF World
    <3>3. QED
      BY <1>1, <1>2, <3>2 DEF SessionActivated, MayActivate
  <2> HIDE DEF m
  <2>3. /\ World'.manager = m /\ World'.proxy = proxy /\ World'.call = call
        /\ World'.auth = auth /\ World'.processCall = processCall
        /\ World'.reports = reports
    BY <2>2 DEF World
  <2>4. OrderlyConnection(World')
    BY <1>1, <2>1, <2>2, <2>3 DEF Orderly, OrderlyConnection
  <2>5. /\ OrderlyProxies(World') /\ OrderlyCalls(World') /\ OrderlyRegistrations(World')
        /\ OrderlyAnswers(World')
    BY <1>1, <2>1, <2>3 DEF Orderly, OrderlyProxies, OrderlyCalls, OrderlyRegistrations,
                            OrderlyAnswers
  <2>6. RegistrationsKnown(World') /\ OrderlyReports(World')
    BY <1>1, <2>3 DEF RegistrationsKnown, OrderlyReports
  <2>7. (proxy'[Main].path = "dead") = gone'
    BY <2>2 DEF SessionOrderly
  <2>8. QED
    BY <2>2, <2>4, <2>5, <2>6, <2>7 DEF Orderly, SessionOrderly
<1>3. ASSUME SessionActivationDone
      PROVE  /\ SessionOrderly' /\ processCall' = processCall
             /\ \A d \in Own : call'[d].state = call[d].state
  <2> DEFINE v == OnActivationDone(World)
  <2>1. Become(v) /\ manager.activation \in {"done", "failed"}
    BY <1>3 DEF SessionActivationDone
  <2>2. PICK s \in {"unknown", "activating", "activated"} :
           /\ IsWorld(Settled(World, s)) /\ Kept(World, Settled(World, s))
           /\ Settled(World, s).manager.connection = manager.connection
           /\ Settled(World, s).manager.lost = manager.lost
           /\ Settled(World, s).manager.activation = "none"
           /\ Settled(World, s).proxy = proxy /\ Settled(World, s).call = call
           /\ \/ v = Settled(World, s)
              \/ v = Setup(Settled(World, s))
    BY <1>1, OnActivationDoneEffect
  <2>3. Kept(World, v)
    BY <1>1, OnActivationDoneEffect
  <2> DEFINE u == Settled(World, s)
  <2> HIDE DEF u, v
  <2>4. manager.connection = "none"
    BY <1>1, <2>1 DEF Orderly, OrderlyConnection
  <2>5. Orderly(u)
    <3>1. OrderlyConnection(u)
      BY <1>1, <2>2 DEF Orderly, OrderlyConnection, u
    <3>2. OrderlyProxies(u) /\ OrderlyCalls(u) /\ OrderlyRegistrations(u) /\ OrderlyAnswers(u)
      BY <1>1, <2>2 DEF Orderly, OrderlyProxies, OrderlyCalls, OrderlyRegistrations,
                        OrderlyAnswers, u
    <3>3. QED
      BY <3>1, <3>2 DEF Orderly
  <2>6. Orderly(v) /\ \A c \in Own : v.call[c] = call[c]
    BY <2>2, <2>4, <2>5, SetupOrderly DEF u
  <2>7. v.auth = auth /\ v.processCall = processCall /\ v.reports = reports
    BY <1>1, <2>3, KeptInSession
  <2>8. RegistrationsKnown(v) /\ v.proxy[Main].path = proxy[Main].path
    BY <1>1, <2>3, <2>7, ProxyOfCall DEF Kept, RegistrationsKnown
  <2>9. OrderlyReports(v)
    <3>1. processCall # None => processCall \in Own
      BY SessionSetsOfCalls DEF SessionAlways, SessionTypeOK
    <3>2. QED
      BY <1>1, <2>6, <2>7, <3>1 DEF OrderlyReports
  <2>10. SessionOrderly'
    BY <2>1, <2>6, <2>8, <2>9, BecomeIsOrderly DEF v
  <2>11. QED
    BY <2>1, <2>6, <2>7, <2>10 DEF Become, v
<1>4. QED
  BY <1>2, <1>3


LEMMA ReplyIsOrderly ==
  ASSUME SessionAlways, SessionOrderly, NEW c \in Call, NEW answer \in Answer,
         SessionReply(c, answer)
  PROVE  /\ SessionOrderly' /\ UNCHANGED givenUp
         /\ \/ /\ processCall' = processCall
               /\ \A d \in Own :
                    \/ call'[d] = call[d]
                    \/ call[d].state \in {"queued", "sent"} /\ call'[d].state \in {"queued", "sent"}
            \/ /\ c \in Own /\ call[c].state = "sent" /\ call'[c].state = "done"
               /\ \A d \in Own \ {c} : call'[d] = call[d]
               /\ processCall' \in {None, processCall}
               /\ c \in ProcessCall => processCall' = None
               /\ processCall' # processCall => c \in ProcessCall \/ May("refused")
            \/ /\ processCall' = None
               /\ \A d \in Own : call'[d].state \notin {"queued", "failing", "sent"}
                                 /\ (call'[d].state = "none") = (call[d].state = "none")
<1>1. /\ MayAnswer(World, c, answer) /\ UNCHANGED givenUp
      /\ answer = "UnknownObject" => ~gone
      /\ answer = "error" /\ c \in Own \ ProcessCall => May("refused")
      /\ \/ /\ Retried(World, c, answer)
            /\ c \in Own => RegFree
            /\ Become(Requeued(World, c))
         \/ /\ ~Retried(World, c, answer) /\ answer # "success"
            /\ Become(Finished(ErrorSlot(World, c), c))
         \/ /\ answer = "success" /\ c \in Own
            /\ Become(Finished(Succeeded(World, c), c))
         \/ /\ answer = "success" /\ c \in Reg
            /\ \E w \in Authenticated(World) : Become(Finished(w, c))
  BY DEF SessionReply
<1>2. /\ call[c].state = "sent"
      /\ c \in Reg => /\ auth /\ ~Retried(World, c, answer)
                      /\ \A d \in Own : call[d].state # "sent"
      /\ c \in Own => /\ answer \in {"success", "error", "UnknownObject"}
                      /\ Retried(World, c, answer) => proxy[Main].path = "none"
                      /\ ~Retried(World, c, answer) =>
                           ~auth /\ (answer = "UnknownObject" => gone)
  BY <1>1, AnswersInOrder
<1>3. (c \in Own \/ c \in Reg) /\ ~(c \in Own /\ c \in Reg)
  BY ProxyOfCall DEF Call
<1>4. CASE Retried(World, c, answer) /\ (c \in Own => RegFree) /\ Become(Requeued(World, c))
  <2>1. c \in Own
    BY <1>2, <1>3, <1>4
  <2>2. /\ SessionOrderly' /\ processCall' = processCall
        /\ call'[c].state = "queued" /\ \A d \in Own \ {c} : call'[d] = call[d]
    BY <1>2, <1>4, <2>1, RetryIsOrderly
  <2>3. QED
    BY <1>1, <1>2, <2>1, <2>2
<1>5. CASE ~Retried(World, c, answer) /\ answer # "success"
             /\ Become(Finished(ErrorSlot(World, c), c))
  <2>1. CASE c \in Own
    <3>1. /\ SessionOrderly' /\ processCall' = None
          /\ call'[c].state = "done" /\ \A d \in Own \ {c} : call'[d] = call[d]
      BY <1>2, <1>5, <2>1, OwnErrorIsOrderly
    <3>2. c \in ProcessCall \/ May("refused")
      BY <1>1, <1>2, <1>5, <2>1
    <3>3. QED
      BY <1>1, <1>2, <2>1, <3>1, <3>2
  <2>2. CASE c \in Reg
    <3>1. /\ SessionOrderly' /\ processCall' = None
          /\ \A d \in Own : call'[d].state \notin {"queued", "failing", "sent"}
                            /\ (call'[d].state = "none") = (call[d].state = "none")
      BY <1>2, <1>5, <2>2, RegistrationErrorIsOrderly
    <3>2. QED
      BY <1>1, <3>1
  <2>3. QED
    BY <1>3, <2>1, <2>2
<1>6. CASE c \in Own /\ Become(Finished(Succeeded(World, c), c))
  <2>1. /\ SessionOrderly'
        /\ processCall' = IF c \in ProcessCall THEN None ELSE processCall
        /\ call'[c].state = "done" /\ \A d \in Own \ {c} : call'[d] = call[d]
    BY <1>2, <1>6, OwnSuccessIsOrderly
  <2>2. QED
    BY <1>1, <1>2, <1>6, <2>1
<1>7. CASE c \in Reg /\ \E w \in Authenticated(World) : Become(Finished(w, c))
  <2>1. PICK w \in Authenticated(World) : Become(Finished(w, c))
    BY <1>7
  <2>2. /\ SessionOrderly' /\ processCall' = processCall
        /\ \A d \in Own :
             \/ call'[d] = call[d]
             \/ call[d].state = "queued" /\ call'[d].state = "sent"
    BY <1>2, <1>7, <2>1, RegistrationSuccessIsOrderly
  <2>3. QED
    BY <1>1, <2>2
<1>8. QED
  BY <1>1, <1>4, <1>5, <1>6, <1>7

\* A step while the daemon stays, by what it does to the calls
LEMMA OrderlyStep ==
  ASSUME SessionAlways, SessionOrderly, Without({"ends"}), SessionNext
  PROVE  SessionOrderly'
<1>1. ~May("ends")
  BY DEF Without, May
<1>2. ASSUME NEW c \in ProcessCall, Process(c)
      PROVE  SessionOrderly'
  BY <1>2, CallsAreOrderly, SessionSetsOfCalls
<1>3. ASSUME NEW c \in Own \ ProcessCall, Request(c)
      PROVE  SessionOrderly'
  BY <1>3, CallsAreOrderly
<1>4. CASE Withdraw
  BY <1>4, WithdrawIsOrderly
<1>5. ASSUME NEW c \in CancelCall, Cancel(c)
      PROVE  SessionOrderly'
  BY <1>5, CallsAreOrderly, SessionSetsOfCalls
<1>6. ASSUME NEW c \in Call, Fail(c)
      PROVE  FALSE
  BY <1>6, SessionIsOrderly, WorldOfSession DEF Fail, Orderly, OrderlyCalls
<1>7. ASSUME NEW c \in Call, NEW answer \in Answer, SessionReply(c, answer)
      PROVE  SessionOrderly'
  BY <1>7, ReplyIsOrderly
<1>8. CASE ObjectGone
  BY <1>8, ObjectGoneIsOrderly
<1>9. CASE Unregistered
  BY <1>9, UnregisteredIsOrderly
<1>10. CASE SessionEnds
  BY <1>1, <1>10 DEF SessionEnds, MayEnd
<1>11. CASE SessionActivationDone \/ \E ok \in BOOLEAN : SessionActivated(ok)
  BY <1>11, ActivationsAreOrderly
<1>12. CASE SessionDisconnected
  BY <1>12, SessionIsOrderly, WorldOfSession
     DEF SessionDisconnected, Orderly, OrderlyConnection
<1>13. QED
  BY <1>2, <1>3, <1>4, <1>5, <1>6, <1>7, <1>8, <1>9, <1>10, <1>11, <1>12 DEF SessionNext

LEMMA AlwaysStep ==
  ASSUME SessionAlways, SessionNext
  PROVE  SessionAlways'
<1>1. UNCHANGED interference
  BY DEF SessionNext
<1>2. ASSUME NEW c \in ProcessCall, Process(c)
      PROVE  SessionAlways'
  BY <1>1, <1>2, CallsAreTyped, SessionSetsOfCalls
<1>3. ASSUME NEW c \in Own \ ProcessCall, Request(c)
      PROVE  SessionAlways'
  BY <1>1, <1>3, CallsAreTyped
<1>4. CASE Withdraw
  BY <1>1, <1>4, WithdrawIsTyped
<1>5. ASSUME NEW c \in CancelCall, Cancel(c)
      PROVE  SessionAlways'
  BY <1>1, <1>5, CallsAreTyped, SessionSetsOfCalls
<1>6. ASSUME NEW c \in Call, Fail(c)
      PROVE  SessionAlways'
  BY <1>1, <1>6, FinishedErrorIsTyped DEF Fail
<1>7. ASSUME NEW c \in Call, NEW answer \in Answer, SessionReply(c, answer)
      PROVE  SessionAlways'
  BY <1>1, <1>7, SessionReplyIsTyped
<1>8. CASE ObjectGone
  BY <1>1, <1>8, ObjectGoneIsTyped
<1>9. CASE Unregistered
  BY <1>1, <1>9, UnregisteredIsTyped
<1>10. CASE SessionEnds
  BY <1>1, <1>10, SessionEndsIsTyped
<1>11. CASE SessionActivationDone \/ \E ok \in BOOLEAN : SessionActivated(ok)
  BY <1>1, <1>11, ActivationsAreTyped
<1>12. CASE SessionDisconnected
  BY <1>1, <1>12, SessionDisconnectedIsTyped
<1>13. QED
  BY <1>2, <1>3, <1>4, <1>5, <1>6, <1>7, <1>8, <1>9, <1>10, <1>11, <1>12 DEF SessionNext

LEMMA ProcessStep ==
  ASSUME SessionAlways, SessionOrderly, ProcessOrderly,
         Without({"ends", "refused", "again"}), SessionNext
  PROVE  ProcessOrderly'
<1>1. ~May("ends") /\ ~May("refused") /\ ~May("again")
  BY DEF Without, May
<1>2. /\ givenUp \subseteq ProcessCall /\ ProcessCall \subseteq Own /\ CancelCall \subseteq Own
      /\ ProcessCall \cap CancelCall = {} /\ None \notin Own
      /\ processCall \in ProcessCall \cup {None}
  BY SessionSetsOfCalls, SessionAssumption DEF SessionAlways, SessionTypeOK
<1>3. \A d \in Own : Open(d) = (call[d].state \in {"queued", "failing", "sent"})
  BY DEF Open
<1>4. \A d \in Own : Open(d)' = (call'[d].state \in {"queued", "failing", "sent"})
  BY DEF Open
<1>5. /\ \A c \in ProcessCall \ givenUp : Open(c) => processCall = c
      /\ \A c \in givenUp : call[c].state # "none" /\ (processCall # None => ~Open(c))
  BY DEF ProcessOrderly
<1>6. ASSUME /\ \A c \in ProcessCall \ givenUp' : Open(c)' => processCall' = c
             /\ \A c \in givenUp' : call'[c].state # "none" /\ (processCall' # None => ~Open(c)')
      PROVE  ProcessOrderly'
  BY <1>6 DEF ProcessOrderly
<1>7. ASSUME NEW c \in ProcessCall, Process(c)
      PROVE  ProcessOrderly'
  <2>1. call'[c].state \in {"queued", "sent"} /\ \A d \in Own \ {c} : call'[d] = call[d]
    BY <1>2, <1>7, CallsAreOrderly
  <2>2. /\ call[c].state = "none" /\ processCall = None /\ givenUp' = givenUp
        /\ \A p \in givenUp : ~Open(p)
    BY <1>1, <1>7 DEF Process
  <2>3. processCall' = c
    <3> DEFINE v == Send(World, c)
    <3>1. SessionWorld(World) /\ call[c].state = "none" /\ RegFree /\ World.call = call
      BY <1>7, WorldOfSession DEF Process
    <3>2. MayRegister(World)
      BY <3>1, WorldOfSession DEF RegFree, MayRegister
    <3>3. SessionWorld(v)
      BY <1>2, <3>1, <3>2, SendEffect
    <3>4. Become([v EXCEPT !.processCall = c])
      BY <1>7 DEF Process
    <3> HIDE DEF v
    <3>5. [v EXCEPT !.processCall = c].processCall = c
      BY <3>3, AssignmentEffect
    <3>6. QED
      BY <3>4, <3>5 DEF Become
  <2>4. QED
    BY <1>2, <1>3, <1>4, <1>5, <1>6, <2>1, <2>2, <2>3
<1>8. ASSUME NEW c \in Own \ ProcessCall, Request(c)
      PROVE  ProcessOrderly'
  <2>1. call'[c].state \in {"queued", "sent"} /\ \A d \in Own \ {c} : call'[d] = call[d]
    BY <1>8, CallsAreOrderly
  <2>2. processCall' = processCall /\ givenUp' = givenUp
    <3> DEFINE v == Send(World, c)
    <3>1. /\ SessionWorld(World) /\ call[c].state = "none" /\ RegFree /\ World.call = call
          /\ World.processCall = processCall
      BY <1>8, WorldOfSession DEF Request
    <3>2. MayRegister(World)
      BY <3>1, WorldOfSession DEF RegFree, MayRegister
    <3>3. v.processCall = processCall
      BY <1>8, <3>1, <3>2, SendEffect
    <3>4. Become(v) /\ givenUp' = givenUp
      BY <1>8 DEF Request
    <3> HIDE DEF v
    <3>5. QED
      BY <3>3, <3>4 DEF Become
  <2>3. QED
    BY <1>2, <1>3, <1>4, <1>5, <1>6, <1>8, <2>1, <2>2
<1>9. CASE Withdraw
  <2>1. /\ processCall \in Own /\ processCall' = None
        /\ call[processCall].state = "queued" /\ call'[processCall].state = "done"
        /\ \A d \in Own \ {processCall} : call'[d] = call[d]
    BY <1>9, WithdrawIsOrderly
  <2>2. givenUp' = givenUp \cup {processCall}
    BY <1>9 DEF Withdraw
  <2>3. QED
    BY <1>2, <1>3, <1>4, <1>5, <1>6, <2>1, <2>2
<1>10. ASSUME NEW c \in CancelCall, Cancel(c)
       PROVE  ProcessOrderly'
  <2>1. call'[c].state \in {"queued", "sent"} /\ \A d \in Own \ {c} : call'[d] = call[d]
    BY <1>2, <1>10, CallsAreOrderly
  <2>2. givenUp' = givenUp \cup ({processCall} \ {None})
    BY <1>10 DEF Cancel
  <2>3. processCall' = None
    <3> DEFINE v == Send(World, c)
    <3>1. SessionWorld(World) /\ call[c].state = "none" /\ RegFree /\ World.call = call
      BY <1>10, WorldOfSession DEF Cancel
    <3>2. MayRegister(World)
      BY <3>1, WorldOfSession DEF RegFree, MayRegister
    <3>3. SessionWorld(v)
      BY <1>2, <3>1, <3>2, SendEffect
    <3>4. Become([v EXCEPT !.processCall = None])
      BY <1>10 DEF Cancel
    <3> HIDE DEF v
    <3>5. [v EXCEPT !.processCall = None].processCall = None
      BY <3>3, AssignmentEffect
    <3>6. QED
      BY <3>4, <3>5 DEF Become
  <2>4. processCall # None => call[processCall].state \in {"queued", "sent"}
    BY SessionIsOrderly, WorldOfSession DEF OrderlyReports
  <2>5. \A d \in ProcessCall : call'[d] = call[d]
    BY <1>2, <2>1
  <2>6. QED
    BY <1>2, <1>3, <1>4, <1>5, <1>6, <2>2, <2>3, <2>4, <2>5
<1>11. ASSUME NEW c \in Call, Fail(c)
       PROVE  FALSE
  BY <1>11, SessionIsOrderly, WorldOfSession DEF Fail, Orderly, OrderlyCalls
<1>12. ASSUME NEW c \in Call, NEW answer \in Answer, SessionReply(c, answer)
       PROVE  ProcessOrderly'
  <2>1. givenUp' = givenUp
    BY <1>12, ReplyIsOrderly
  <2>2. CASE /\ processCall' = processCall
             /\ \A d \in Own :
                  \/ call'[d] = call[d]
                  \/ call[d].state \in {"queued", "sent"} /\ call'[d].state \in {"queued", "sent"}
    <3>1. \A d \in ProcessCall : /\ Open(d)' = Open(d)
                                 /\ (call'[d].state = "none") = (call[d].state = "none")
      BY <1>2, <1>3, <1>4, <2>2
    <3>2. QED
      BY <1>2, <1>5, <1>6, <2>1, <2>2, <3>1
  <2>3. CASE /\ c \in Own /\ call[c].state = "sent" /\ call'[c].state = "done"
             /\ \A d \in Own \ {c} : call'[d] = call[d]
             /\ processCall' \in {None, processCall}
             /\ c \in ProcessCall => processCall' = None
             /\ processCall' # processCall => c \in ProcessCall
    <3>1. \A d \in ProcessCall \ {c} : /\ Open(d)' = Open(d)
                                       /\ call'[d].state = call[d].state
      BY <1>2, <1>3, <1>4, <2>3
    <3>2. Open(c) /\ ~Open(c)'
      BY <1>3, <1>4, <2>3
    <3>3. ASSUME NEW d \in ProcessCall \ givenUp, Open(d)'
          PROVE  processCall' = d
      <4>1. d # c /\ Open(d) /\ processCall = d
        BY <1>5, <2>3, <3>1, <3>2, <3>3
      <4>2. c \notin ProcessCall
        BY <1>2, <1>5, <3>2, <4>1
      <4>3. QED
        BY <2>3, <4>1, <4>2
    <3>4. ASSUME NEW d \in givenUp
          PROVE  call'[d].state # "none" /\ (processCall' # None => ~Open(d)')
      BY <1>2, <1>5, <2>3, <3>1, <3>2, <3>4
    <3>5. QED
      BY <1>6, <2>1, <3>3, <3>4
  <2>4. CASE /\ processCall' = None
             /\ \A d \in Own : call'[d].state \notin {"queued", "failing", "sent"}
                               /\ (call'[d].state = "none") = (call[d].state = "none")
    BY <1>2, <1>4, <1>5, <1>6, <2>1, <2>4
  <2>5. QED
    BY <1>1, <1>12, <2>2, <2>3, <2>4, ReplyIsOrderly
<1>13. ASSUME processCall' = processCall, givenUp' = givenUp,
              \A d \in Own : call'[d].state = call[d].state
       PROVE  ProcessOrderly'
  BY <1>2, <1>3, <1>4, <1>5, <1>6, <1>13
<1>14. CASE ObjectGone
  BY <1>13, <1>14, ObjectGoneIsOrderly DEF ObjectGone
<1>15. CASE Unregistered
  BY <1>13, <1>15, UnregisteredIsOrderly DEF Unregistered
<1>16. CASE SessionEnds
  BY <1>1, <1>16 DEF SessionEnds, MayEnd
<1>17. CASE SessionActivationDone \/ \E ok \in BOOLEAN : SessionActivated(ok)
  BY <1>13, <1>17, ActivationsAreOrderly DEF SessionActivationDone, SessionActivated
<1>18. CASE SessionDisconnected
  BY <1>18, SessionIsOrderly, WorldOfSession
     DEF SessionDisconnected, Orderly, OrderlyConnection
<1>19. QED
  BY <1>7, <1>8, <1>9, <1>10, <1>11, <1>12, <1>14, <1>15, <1>16, <1>17, <1>18 DEF SessionNext


\* The constructor registers.
LEMMA SessionStarts ==
  ASSUME SessionInit
  PROVE  SessionIInv
<1>1. PICK peerBus \in BOOLEAN, daemon \in BOOLEAN, ends \in 0 .. MaxEnds :
        LET f == Fresh(peerBus, daemon, ends)
            w == Register([manager |-> f.manager, proxy |-> f.proxy, call |-> f.call,
                           auth |-> FALSE, processCall |-> None,
                           reports |-> [c \in Own |-> 0]])
        IN /\ interference \in Interferences
           /\ manager = w.manager
           /\ proxy = w.proxy
           /\ call = w.call
           /\ auth = w.auth
           /\ processCall = None
           /\ reports = w.reports
           /\ gone = FALSE
           /\ givenUp = {}
  BY DEF SessionInit
<1> DEFINE b == [manager |-> [peerBus |-> peerBus, connection |-> "none", lost |-> FALSE,
                              service |-> "unknown", activation |-> "none",
                              daemon |-> daemon, ends |-> ends],
                 proxy |-> [p \in Proxy |->
                    IF p = Main THEN [NoProxy EXCEPT !.status = "Incomplete"] ELSE NoProxy],
                 call |-> [c \in Call |-> NoCall]]
           f == Fresh(peerBus, daemon, ends)
           x == [manager |-> f.manager, proxy |-> f.proxy, call |-> f.call,
                 auth |-> FALSE, processCall |-> None, reports |-> [c \in Own |-> 0]]
           w == Register(x)
<1>2. IsWorld(b) /\ f = Setup(b)
  BY FreshEffect
<1>3. Orderly(b) /\ b.manager.connection = "none"
  <2>1. /\ b.manager.connection = "none" /\ b.manager.lost = FALSE
        /\ b.manager.activation = "none"
        /\ \A c \in Call : b.call[c].state = "none"
        /\ \A r \in Reg : b.proxy[r] = NoProxy
        /\ b.proxy[Main].path = "none" /\ b.proxy[Main].status = "Incomplete"
        /\ b.proxy[Main].connected = FALSE
    BY ProxyOfCall, BlankCalls DEF NoProxy
  <2> HIDE DEF b
  <2>2. OrderlyConnection(b) /\ OrderlyProxies(b)
    BY <2>1, BlankCalls DEF OrderlyConnection, OrderlyProxies, Proxy
  <2>3. OrderlyCalls(b) /\ OrderlyAnswers(b) /\ OrderlyRegistrations(b)
    BY <2>1, BlankCalls, ProxyOfCall DEF OrderlyCalls, OrderlyAnswers, OrderlyRegistrations
  <2>4. QED
    BY <2>1, <2>2, <2>3 DEF Orderly
<1>4. b.proxy[Main].path = "none" /\ \A c \in Call : b.call[c].state = "none"
  BY ProxyOfCall, BlankCalls DEF NoProxy
<1> HIDE DEF b
<1>5. Orderly(f) /\ Kept(b, f)
  BY <1>2, <1>3, SetupOrderly
<1>6. \A c \in Call : f.call[c].state = "none"
  BY <1>4, <1>5 DEF Kept
<1>7. f.proxy[Main].path = "none"
  BY <1>4, <1>5, ProxyOfCall DEF Kept
<1>8. IsWorld(f)
  BY <1>5 DEF Kept
<1> HIDE DEF f
<1>9. /\ x.manager = f.manager /\ x.proxy = f.proxy /\ x.call = f.call /\ x.auth = FALSE
      /\ x.processCall = None /\ x.reports \in [Own -> Nat]
      /\ \A c \in Own : x.reports[c] = 0
      /\ {"manager", "proxy", "call", "auth", "processCall", "reports"} \subseteq DOMAIN x
  OBVIOUS
<1> HIDE DEF x
<1>10. Orderly(x)
  BY <1>5, <1>9, OrderlySame
<1>11. SessionWorld(x)
  <2>1. IsWorld(x)
    BY <1>8, <1>9 DEF IsWorld
  <2>2. \A r \in Reg : (x.call[r].state = "none") = (x.proxy[r].status = "none")
    BY <1>10 DEF Orderly, OrderlyRegistrations
  <2>3. /\ {"auth", "processCall", "reports"} \subseteq DOMAIN x
        /\ x.auth \in BOOLEAN /\ x.processCall \in ProcessCall \cup {None}
        /\ x.reports \in [Own -> Nat]
        /\ x.auth => \E r \in Reg : x.call[r].state # "none"
    BY <1>9
  <2>4. QED
    BY <2>1, <2>2, <2>3 DEF SessionWorld
<1>12. MayRegister(x) /\ RegistrationsKnown(x) /\ x.proxy[Main].path = "none"
  BY <1>6, <1>7, <1>9, SessionSetsOfCalls, ProxyOfCall DEF MayRegister, RegistrationsKnown
<1>13. /\ SessionWorld(w) /\ w.processCall = None /\ w.reports = x.reports
       /\ w.proxy[Main].path = "none"
  BY <1>9, <1>11, <1>12, RegisterEffect
<1>14. /\ Orderly(w) /\ RegistrationsKnown(w)
       /\ \A c \in Own : w.call[c].state = "none"
  <2>1. /\ Orderly(w) /\ RegistrationsKnown(w) /\ \A c \in Own : w.call[c] = x.call[c]
    BY <1>10, <1>11, <1>12, RegisterOrderly
  <2>2. QED
    BY <1>6, <1>9, <2>1, ProxyOfCall
<1>15. /\ manager = w.manager /\ proxy = w.proxy /\ call = w.call /\ auth = w.auth
       /\ processCall = None /\ reports = w.reports /\ gone = FALSE /\ givenUp = {}
       /\ interference \in Interferences
  BY <1>1 DEF x, f
<1> HIDE DEF w
<1>16. SessionAlways
  <2>1. \A c \in Call : call[c].state = "failing" => proxy[ProxyOf(c)].status # "none"
    BY <1>14, <1>15, ProxyOfCall DEF Orderly, OrderlyCalls
  <2>2. SessionTypeOK
    BY <1>13, <1>15, <2>1 DEF SessionTypeOK, SessionWorld, IsWorld
  <2>3. RegistrationUnderway
    BY <1>13, <1>15 DEF RegistrationUnderway, SessionWorld
  <2>4. QED
    BY <1>13, <1>15, <2>2, <2>3 DEF SessionAlways, SessionWorld, IsWorld
<1>17. SessionOrderly
  <2>1. /\ World.manager = w.manager /\ World.proxy = w.proxy /\ World.call = w.call
        /\ World.auth = w.auth /\ World.processCall = None /\ World.reports = w.reports
    BY <1>15 DEF World
  <2>2. Orderly(World)
    BY <1>14, <2>1, OrderlySame
  <2>3. RegistrationsKnown(World) /\ OrderlyReports(World)
    BY <1>9, <1>13, <1>14, <2>1 DEF RegistrationsKnown, OrderlyReports
  <2>4. (proxy[Main].path = "dead") = gone
    BY <1>13, <1>15
  <2>5. QED
    BY <2>2, <2>3, <2>4 DEF SessionOrderly
<1>18. ProcessOrderly
  BY <1>14, <1>15, SessionSetsOfCalls DEF ProcessOrderly, Open
<1>19. QED
  BY <1>16, <1>17, <1>18 DEF SessionIInv

LEMMA SessionStep ==
  ASSUME SessionIInv, [SessionNext]_sessionVars
  PROVE  SessionIInv'
<1>1. CASE SessionNext
  <2>1. UNCHANGED interference
    BY <1>1 DEF SessionNext
  <2>2. Without({"ends"})' = Without({"ends"})
          /\ Without({"ends", "refused", "again"})' = Without({"ends", "refused", "again"})
          /\ (Without({"ends", "refused", "again"}) => Without({"ends"}))
    BY <2>1 DEF Without
  <2>3. QED
    BY <1>1, <2>2, AlwaysStep, OrderlyStep, ProcessStep DEF SessionIInv
<1>2. CASE UNCHANGED sessionVars
  <2>1. SessionAlways'
    BY <1>2 DEF SessionIInv, SessionAlways, SessionTypeOK, RegistrationUnderway, sessionVars
  <2>2. World' = World
    BY <1>2 DEF World, sessionVars
  <2>3. Without({"ends"}) => SessionOrderly'
    BY <1>2, <2>2 DEF SessionIInv, SessionOrderly, sessionVars
  <2>4. Without({"ends", "refused", "again"}) => ProcessOrderly'
    BY <1>2 DEF SessionIInv, ProcessOrderly, Open, sessionVars
  <2>5. QED
    BY <1>2, <2>1, <2>3, <2>4 DEF SessionIInv, Without, sessionVars
<1>3. QED
  BY <1>1, <1>2

LEMMA SessionInvHolds ==
  ASSUME SessionIInv
  PROVE  SessionInv
<1>1. SessionTypeOK /\ RegistrationUnderway
  BY DEF SessionIInv, SessionAlways
<1>2. ASSUME Without({"ends"})
      PROVE  ReportedOnce /\ OneRegistration
  <2>1. Orderly(World) /\ OrderlyReports(World) /\ World.call = call /\ World.reports = reports
          /\ World.proxy = proxy
    BY <1>2, SessionIsOrderly, WorldOfSession DEF SessionIInv
  <2>2. ReportedOnce
    BY <2>1 DEF ReportedOnce, OrderlyReports
  <2>3. OneRegistration
    BY <2>1 DEF OneRegistration, Orderly, OrderlyRegistrations
  <2>4. QED
    BY <2>2, <2>3
<1>3. ASSUME Without({"ends", "refused", "again"})
      PROVE  OneProcessAtATime
  BY <1>3 DEF SessionIInv, ProcessOrderly, OneProcessAtATime
<1>4. QED
  BY <1>1, <1>2, <1>3 DEF SessionInv

\* Whatever the daemon and the bus do, a session that waits for an object has a registration
\* under way; and while the daemon stays, the application hears of each call once, there is one
\* registration at a time and none while there is an object, and one process() at a time.
THEOREM SessionCorrect == SessionSpec => []SessionInv
<1>1. SessionSpec => []SessionIInv
  BY SessionStarts, SessionStep, PTL DEF SessionSpec
<1>2. QED
  BY <1>1, SessionInvHolds, PTL

-----------------------------------------------------------------------------
\* The invariant of the service

\* The proxy of the service, whose path is fixed until the connection goes
ServiceProxy(w) ==
  LET m == w.proxy[Main] IN
  /\ m.path \in {"none", "daemon"}
  /\ m.status = IF m.connected /\ m.path = "daemon" THEN "Ready" ELSE "Incomplete"
  /\ Connected(w) => m.connected
  /\ m.connected => w.manager.connection # "none" /\ w.manager.activation = "none"
  /\ w.manager.lost => m.connected /\ w.manager.connection = "down"
  /\ w.manager.connection = "down" => m.connected \/ m.path = "none"
  /\ w.manager.activation # "none" => w.manager.service = "activating"

\* A call waits only for a connection, and what was sent is lost with it.
ServiceCalls(w) ==
  \A c \in Own :
    LET r == w.call[c]
        m == w.proxy[Main]
    IN /\ r.state # "failing"
       /\ r.state = "queued" => m.status = "Incomplete"
       /\ "UnknownObject" \notin r.answers
       /\ r.state = "sent" /\ w.manager.connection = "down" => "Disconnected" \in r.answers
       /\ r.state = "sent" /\ m.path = "none" => r.answers = {"Disconnected"}
       /\ r.state = "sent" /\ r.destroyed => m.path = "none"
       /\ "Disconnected" \in r.answers => m.path = "none" \/ w.manager.connection = "down"

ServiceWorld(w) ==
  /\ IsWorld(w) /\ DOMAIN w = {"manager", "proxy", "call"}
  /\ ServiceProxy(w) /\ ServiceCalls(w)

\* No call is answered any more: the connection has gone.
Broken(w) ==
  /\ w.proxy[Main].path = "none" \/ w.manager.connection = "down"
  /\ \A c \in Own : w.call[c].state = "sent" => w.call[c].answers = {"Disconnected"}

Before(s, a, b) == \E i, j \in DOMAIN s : i < j /\ s[i] = a /\ s[j] = b

\* Until then, the methods wait in the order of the calls, and those sent come first.
InOrder ==
  /\ IsInjective(methods) /\ ToSet(methods) = {q \in MechanismsQuery : Underway(q)}
  /\ \A a, b \in MechanismsQuery : Before(methods, a, b) => Before(line, a, b)
  /\ \A a, b \in Own : service.call[a].state = "sent" /\ service.call[b].state = "queued" =>
       Before(line, a, b)

ServiceIInv ==
  /\ ServiceInv /\ ServiceWorld(service) /\ IsInjective(line)
  /\ InOrder \/ Broken(service)

-----------------------------------------------------------------------------
\* The order of two elements of a sequence without repetitions

LEMMA BeforeOfAppend ==
  ASSUME NEW S, NEW s \in Seq(S), NEW x \in S, NEW a, NEW b
  PROVE  Before(Append(s, x), a, b) <=> Before(s, a, b) \/ (a \in ToSet(s) /\ b = x)
<1> DEFINE t == Append(s, x)
<1>1. /\ DOMAIN s = 1 .. Len(s)
      /\ Len(s) \in Nat
  BY LenProperties
<1>2. /\ DOMAIN t = 1 .. Len(s) + 1
      /\ \A i \in 1 .. Len(s) : t[i] = s[i]
      /\ t[Len(s) + 1] = x
  BY <1>1, AppendProperties, LenProperties
<1> HIDE DEF t
<1>3. ASSUME Before(t, a, b)
      PROVE  Before(s, a, b) \/ (a \in ToSet(s) /\ b = x)
  <2>1. PICK i \in DOMAIN t, j \in DOMAIN t : i < j /\ t[i] = a /\ t[j] = b
    BY <1>3 DEF Before
  <2>2. i \in DOMAIN s /\ s[i] = a
    BY <1>1, <1>2, <2>1
  <2>3. CASE j \in DOMAIN s
    BY <1>1, <1>2, <2>1, <2>2, <2>3 DEF Before
  <2>4. CASE j \notin DOMAIN s
    BY <1>1, <1>2, <2>1, <2>2, <2>4 DEF ToSet
  <2>5. QED
    BY <2>3, <2>4
<1>4. ASSUME Before(s, a, b)
      PROVE  Before(t, a, b)
  <2>1. PICK i \in DOMAIN s, j \in DOMAIN s : i < j /\ s[i] = a /\ s[j] = b
    BY <1>4 DEF Before
  <2>2. i \in DOMAIN t /\ j \in DOMAIN t /\ t[i] = a /\ t[j] = b
    BY <1>1, <1>2, <2>1
  <2>3. QED
    BY <2>1, <2>2 DEF Before
<1>5. ASSUME a \in ToSet(s), b = x
      PROVE  Before(t, a, b)
  <2>1. PICK i \in DOMAIN s : s[i] = a
    BY <1>5 DEF ToSet
  <2>2. i \in DOMAIN t /\ t[i] = a /\ i < Len(s) + 1 /\ Len(s) + 1 \in DOMAIN t
    BY <1>1, <1>2, <2>1
  <2>3. QED
    BY <1>2, <1>5, <2>2 DEF Before
<1>6. QED
  BY <1>3, <1>4, <1>5 DEF t

LEMMA BeforeOfRemoveAt ==
  ASSUME NEW S, NEW s \in Seq(S), IsInjective(s), NEW k \in DOMAIN s, NEW a, NEW b
  PROVE  Before(RemoveAt(s, k), a, b) <=> Before(s, a, b) /\ a # s[k] /\ b # s[k]
<1> DEFINE t == RemoveAt(s, k)
<1>1. /\ DOMAIN s = 1 .. Len(s)
      /\ Len(s) \in Nat \ {0}
      /\ k \in 1 .. Len(s)
  BY LenProperties
<1>2. /\ DOMAIN t = 1 .. Len(s) - 1
      /\ \A j \in 1 .. Len(s) - 1 : t[j] = IF j < k THEN s[j] ELSE s[j + 1]
  BY RemoveAtProperties, LenProperties
<1> HIDE DEF t
<1>3. ASSUME Before(t, a, b)
      PROVE  Before(s, a, b) /\ a # s[k] /\ b # s[k]
  <2>1. PICK i \in DOMAIN t, j \in DOMAIN t : i < j /\ t[i] = a /\ t[j] = b
    BY <1>3 DEF Before
  <2> DEFINE ii == IF i < k THEN i ELSE i + 1
             jj == IF j < k THEN j ELSE j + 1
  <2>2. ii \in DOMAIN s /\ jj \in DOMAIN s /\ ii < jj /\ ii # k /\ jj # k
    BY <1>1, <1>2, <2>1
  <2>3. s[ii] = a /\ s[jj] = b
    BY <1>1, <1>2, <2>1
  <2> HIDE DEF ii, jj
  <2>4. QED
    BY <2>2, <2>3 DEF Before, IsInjective
<1>4. ASSUME Before(s, a, b), a # s[k], b # s[k]
      PROVE  Before(t, a, b)
  <2>1. PICK i \in DOMAIN s, j \in DOMAIN s : i < j /\ s[i] = a /\ s[j] = b
    BY <1>4 DEF Before
  <2> DEFINE ii == IF i < k THEN i ELSE i - 1
             jj == IF j < k THEN j ELSE j - 1
  <2>2. i # k /\ j # k
    BY <1>4, <2>1
  <2>3. ii \in DOMAIN t /\ jj \in DOMAIN t /\ ii < jj
    BY <1>1, <1>2, <2>1, <2>2
  <2>4. t[ii] = a /\ t[jj] = b
    BY <1>1, <1>2, <2>1, <2>2
  <2> HIDE DEF ii, jj
  <2>5. QED
    BY <2>3, <2>4 DEF Before
<1>5. QED
  BY <1>3, <1>4 DEF t

\* RemoveFirst removes the place of the element.
LEMMA RemoveFirstPlace ==
  ASSUME NEW S, NEW s \in Seq(S), NEW e \in ToSet(s)
  PROVE  \E k \in DOMAIN s : s[k] = e /\ RemoveFirst(s, e) = RemoveAt(s, k)
<1> DEFINE I == {i \in 1 .. Len(s) : s[i] = e}
<1>1. DOMAIN s = 1 .. Len(s) /\ Len(s) \in Nat
  BY LenProperties
<1>2. I # {}
  BY <1>1 DEF ToSet
<1>3. Min(I) \in I
  <2>1. I \in SUBSET Nat
    BY <1>1
  <2> HIDE DEF I
  <2>2. QED
    BY <2>1, <1>2, MinOfNaturals
<1>4. RemoveFirst(s, e) = RemoveAt(s, Min(I))
  BY <1>2 DEF RemoveFirst, SelectInSeq
<1>5. QED
  BY <1>1, <1>3, <1>4

LEMMA BeforeOfRemoveFirst ==
  ASSUME NEW S, NEW s \in Seq(S), IsInjective(s), NEW e \in ToSet(s)
  PROVE  /\ RemoveFirst(s, e) \in Seq(S)
         /\ ToSet(RemoveFirst(s, e)) = ToSet(s) \ {e}
         /\ IsInjective(RemoveFirst(s, e))
         /\ \A a, b : Before(RemoveFirst(s, e), a, b) <=> Before(s, a, b) /\ a # e /\ b # e
<1>1. PICK k \in DOMAIN s : s[k] = e /\ RemoveFirst(s, e) = RemoveAt(s, k)
  BY RemoveFirstPlace
<1>2. RemoveAt(s, k) \in Seq(S)
  BY RemoveAtProperties
<1>3. ToSet(RemoveAt(s, k)) = ToSet(s) \ {e} /\ IsInjective(RemoveAt(s, k))
  BY <1>1, RemoveAtToSet
<1>4. \A a, b : Before(RemoveAt(s, k), a, b) <=> Before(s, a, b) /\ a # e /\ b # e
  BY <1>1, BeforeOfRemoveAt
<1>5. QED
  BY <1>1, <1>2, <1>3, <1>4

LEMMA BeforeOfTail ==
  ASSUME NEW S, NEW s \in Seq(S), IsInjective(s), s # <<>>
  PROVE  /\ Tail(s) \in Seq(S) /\ Len(Tail(s)) = Len(s) - 1
         /\ Head(s) \in ToSet(s)
         /\ ToSet(Tail(s)) = ToSet(s) \ {Head(s)}
         /\ IsInjective(Tail(s))
         /\ \A a, b : Before(Tail(s), a, b) => Before(s, a, b)
         /\ \A a \in ToSet(s) : a # Head(s) => Before(s, Head(s), a)
<1>1. 1 \in DOMAIN s /\ Head(s) = s[1] /\ RemoveAt(s, 1) = Tail(s)
  BY TailIsRemoveAt
<1>2. Tail(s) \in Seq(S) /\ Len(Tail(s)) = Len(s) - 1
  BY <1>1, RemoveAtProperties
<1>3. ToSet(Tail(s)) = ToSet(s) \ {Head(s)} /\ IsInjective(Tail(s)) /\ Head(s) \in ToSet(s)
  <2>1. ToSet(RemoveAt(s, 1)) = ToSet(s) \ {s[1]} /\ IsInjective(RemoveAt(s, 1))
    BY <1>1, RemoveAtToSet
  <2>2. s[1] \in ToSet(s)
    BY <1>1 DEF ToSet
  <2>3. QED
    BY <1>1, <2>1, <2>2
<1>4. \A a, b : Before(Tail(s), a, b) => Before(s, a, b)
  BY <1>1, BeforeOfRemoveAt
<1>5. ASSUME NEW a \in ToSet(s), a # Head(s)
      PROVE  Before(s, Head(s), a)
  <2>1. PICK j \in DOMAIN s : s[j] = a
    BY DEF ToSet
  <2>2. 1 < j
    BY <1>1, <1>5, <2>1, LenProperties
  <2>3. QED
    BY <1>1, <2>1, <2>2 DEF Before
<1>6. QED
  BY <1>2, <1>3, <1>4, <1>5

LEMMA BeforeIsStrict ==
  ASSUME NEW S, NEW s \in Seq(S), IsInjective(s), NEW a, NEW b, Before(s, a, b)
  PROVE  /\ ~Before(s, b, a)
         /\ a \in ToSet(s) /\ b \in ToSet(s)
         /\ \A i \in DOMAIN s : s[i] = a => \A j \in 1 .. i : s[j] # b
<1>1. PICK i \in DOMAIN s, j \in DOMAIN s : i < j /\ s[i] = a /\ s[j] = b
  BY DEF Before
<1>2. DOMAIN s = 1 .. Len(s) /\ Len(s) \in Nat
  BY LenProperties
<1>3. a \in ToSet(s) /\ b \in ToSet(s)
  BY <1>1 DEF ToSet
<1>4. \A k \in DOMAIN s : (s[k] = a => k = i) /\ (s[k] = b => k = j)
  BY <1>1 DEF IsInjective
<1>5. ~Before(s, b, a)
  BY <1>1, <1>2, <1>4 DEF Before
<1>6. \A k \in DOMAIN s : s[k] = a => \A l \in 1 .. k : s[l] # b
  BY <1>1, <1>2, <1>4
<1>7. QED
  BY <1>3, <1>5, <1>6

-----------------------------------------------------------------------------
\* What the operators of the proxy make of the world of a service

\* Calls that waited are sent, all of them or none.
Flows(w, v) ==
  /\ \A c \in Own : \/ v.call[c].state = w.call[c].state
                    \/ w.call[c].state = "queued" /\ v.call[c].state = "sent"
  /\ \/ \A c \in Own : v.call[c].state = w.call[c].state
     \/ \A c \in Own : v.call[c].state # "queued"

\* The connection is made, and every proxy is told.
LEMMA JoinedService ==
  ASSUME NEW w, ServiceWorld(w), ~w.proxy[Main].connected, w.manager.activation = "none",
         NEW k \in {"peer", "bus"}
  PROVE  LET v == EmitConnected(Joined(w, k)) IN
         /\ ServiceWorld(v) /\ Flows(w, v) /\ v.proxy[Main].path = w.proxy[Main].path
         /\ v.manager.connection = k
         /\ w.proxy[Main].path = "none" => \A c \in Own : v.call[c] = w.call[c]
<1> DEFINE u == Joined(w, k)
           v == EmitConnected(u)
           m == [w.manager EXCEPT !.connection = k]
<1>1. IsWorld(w) /\ DOMAIN w = {"manager", "proxy", "call"}
  BY DEF ServiceWorld
<1>2. /\ m \in ManagerType /\ m.connection = k /\ m.lost = w.manager.lost
      /\ m.activation = w.manager.activation
  BY <1>1 DEF IsWorld, ManagerType
<1>3. u = [w EXCEPT !.manager = m]
  BY DEF Joined
<1> HIDE DEF u, m
<1>4. /\ IsWorld(u) /\ Kept(w, u) /\ u.manager = m /\ u.proxy = w.proxy /\ u.call = w.call
  BY <1>1, <1>2, <1>3, SetManager
<1>5. Connected(u)
  BY <1>2, <1>4 DEF Connected
<1> HIDE DEF v
<1>6. /\ IsWorld(v) /\ Kept(u, v) /\ v.manager = m
      /\ \A p \in Proxy : w.proxy[p].status # "none" =>
           /\ v.proxy[p].connected
           /\ v.proxy[p].status = IF w.proxy[p].path = "none" THEN "Incomplete" ELSE "Ready"
      /\ \A c \in Call :
           LET p == ProxyOf(c) IN
           /\ w.call[c].state = "queued" /\ w.proxy[p].status # "none"
                /\ w.proxy[p].path # "none" => v.call[c] = Sent(u, p)
           /\ w.call[c].state = "sent" /\ w.proxy[p].status = "Ready" =>
                v.call[c] = [w.call[c] EXCEPT !.destroyed = TRUE]
           /\ \/ w.call[c].state = "sent" /\ w.proxy[p].status = "Ready"
              \/ w.call[c].state = "queued" /\ w.proxy[p].status # "none"
                   /\ w.proxy[p].path # "none"
              \/ v.call[c] = w.call[c]
  BY <1>4, <1>5, EmitConnectedEffect DEF v
<1>7. DOMAIN v = {"manager", "proxy", "call"}
  BY <1>1, <1>4, <1>6 DEF Kept, Same
<1>8. /\ w.proxy[Main].status = "Incomplete" /\ w.proxy[Main].path \in {"none", "daemon"}
      /\ v.proxy[Main].path = w.proxy[Main].path
  BY <1>4, <1>6, ProxyOfCall DEF ServiceWorld, ServiceProxy, Kept
<1>9. /\ v.proxy[Main].connected
      /\ v.proxy[Main].status =
           IF w.proxy[Main].path = "none" THEN "Incomplete" ELSE "Ready"
  BY <1>6, <1>8, ProxyOfCall
<1>10. ServiceProxy(v)
  BY <1>2, <1>6, <1>8, <1>9 DEF ServiceProxy, ServiceWorld
<1>11. ASSUME NEW c \in Own
       PROVE  IF w.call[c].state = "queued" /\ w.proxy[Main].path = "daemon"
                THEN v.call[c] = Sent(u, Main) ELSE v.call[c] = w.call[c]
  <2>1. c \in Call /\ ProxyOf(c) = Main
    BY ProxyOfCall
  <2>2. /\ w.call[c].state = "queued" /\ w.proxy[Main].path # "none" => v.call[c] = Sent(u, Main)
        /\ \/ w.call[c].state = "queued" /\ w.proxy[Main].path # "none"
           \/ v.call[c] = w.call[c]
    BY <1>6, <1>8, <2>1
  <2>3. QED
    BY <1>8, <2>2
<1>12. /\ Sent(u, Main).state = "sent" /\ ~Sent(u, Main).destroyed
       /\ w.proxy[Main].path = "daemon" => Sent(u, Main).answers = {"success", "error"}
  BY <1>4, <1>5, SentCall
<1>13. ServiceCalls(v)
  <2> SUFFICES ASSUME NEW c \in Own
               PROVE  LET r == v.call[c]
                          n == v.proxy[Main]
                      IN /\ r.state # "failing"
                         /\ r.state = "queued" => n.status = "Incomplete"
                         /\ "UnknownObject" \notin r.answers
                         /\ r.state = "sent" /\ v.manager.connection = "down" =>
                              "Disconnected" \in r.answers
                         /\ r.state = "sent" /\ n.path = "none" => r.answers = {"Disconnected"}
                         /\ r.state = "sent" /\ r.destroyed => n.path = "none"
                         /\ "Disconnected" \in r.answers =>
                              n.path = "none" \/ v.manager.connection = "down"
    BY DEF ServiceCalls
  <2>1. v.manager.connection # "down"
    BY <1>2, <1>6
  <2>2. CASE w.call[c].state = "queued" /\ w.proxy[Main].path = "daemon"
    BY <1>8, <1>11, <1>12, <2>1, <2>2
  <2>3. CASE ~(w.call[c].state = "queued" /\ w.proxy[Main].path = "daemon")
    <3>1. v.call[c] = w.call[c]
      BY <1>11, <2>3
    <3>2. "Disconnected" \in w.call[c].answers =>
            w.proxy[Main].path = "none" \/ w.manager.connection = "down"
      BY DEF ServiceWorld, ServiceCalls
    <3>3. w.manager.connection = "down" => w.proxy[Main].path = "none"
      BY DEF ServiceWorld, ServiceProxy
    <3>4. /\ w.call[c].state # "failing" /\ "UnknownObject" \notin w.call[c].answers
          /\ w.call[c].state = "sent" /\ w.proxy[Main].path = "none" =>
               w.call[c].answers = {"Disconnected"}
          /\ w.call[c].state = "sent" /\ w.call[c].destroyed => w.proxy[Main].path = "none"
      BY DEF ServiceWorld, ServiceCalls
    <3>5. w.call[c].state = "queued" => v.proxy[Main].status = "Incomplete"
      BY <1>8, <1>9, <2>3
    <3>6. QED
      BY <1>8, <2>1, <3>1, <3>2, <3>3, <3>4, <3>5
  <2>4. QED
    BY <2>2, <2>3
<1>14. Flows(w, v)
  <2>1. CASE w.proxy[Main].path = "daemon"
    BY <1>11, <1>12, <2>1 DEF Flows
  <2>2. CASE w.proxy[Main].path # "daemon"
    BY <1>11, <2>2 DEF Flows
  <2>3. QED
    BY <2>1, <2>2
<1>15. w.proxy[Main].path = "none" => \A c \in Own : v.call[c] = w.call[c]
  BY <1>11
<1>16. QED
  BY <1>2, <1>6, <1>7, <1>8, <1>10, <1>13, <1>14, <1>15 DEF ServiceWorld, u, v

\* The manager is given other values, and the calls are not concerned.
LEMMA ManagerOfService ==
  ASSUME NEW w, ServiceWorld(w), NEW m \in ManagerType,
         m.connection = w.manager.connection, m.lost = w.manager.lost,
         w.proxy[Main].connected => m.activation = "none",
         m.activation # "none" => m.service = "activating"
  PROVE  LET v == [w EXCEPT !.manager = m] IN
         /\ ServiceWorld(v) /\ Flows(w, v) /\ v.manager = m
         /\ v.proxy = w.proxy /\ v.call = w.call
<1> DEFINE v == [w EXCEPT !.manager = m]
<1>1. IsWorld(v) /\ v.manager = m /\ v.proxy = w.proxy /\ v.call = w.call
  BY SetManager DEF ServiceWorld
<1>2. DOMAIN v = DOMAIN w
  OBVIOUS
<1> HIDE DEF v
<1>3. ServiceProxy(v)
  BY <1>1 DEF ServiceWorld, ServiceProxy, Connected
<1>4. ServiceCalls(v)
  BY <1>1 DEF ServiceWorld, ServiceCalls
<1>5. QED
  BY <1>1, <1>2, <1>3, <1>4 DEF ServiceWorld, Flows, v

\* init() of the manager
LEMMA SetupService ==
  ASSUME NEW w, ServiceWorld(w), ~w.proxy[Main].connected
  PROVE  LET v == Setup(w) IN
         /\ ServiceWorld(v) /\ Flows(w, v)
         /\ v.proxy[Main].path = w.proxy[Main].path
         /\ v.manager.connection = "down" => w.manager.connection = "down"
         /\ Broken(w) => Broken(v)
<1> DEFINE v == Setup(w)
<1>1. CASE w.manager.service = "activating"
  BY <1>1 DEF Setup, Flows
<1>2. CASE w.manager.service # "activating"
  <2>1. w.manager.activation = "none" /\ IsWorld(w)
    BY <1>2 DEF ServiceWorld, ServiceProxy
  <2>2. CASE v = w
    BY <2>2 DEF Flows
  <2>3. CASE v = Asking(w)
    <3> DEFINE m == [w.manager EXCEPT !.service = "activating", !.activation = "asked"]
    <3>1. /\ m \in ManagerType /\ m.connection = w.manager.connection
          /\ m.lost = w.manager.lost /\ m.service = "activating"
      BY <2>1 DEF IsWorld, ManagerType
    <3>2. v = [w EXCEPT !.manager = m]
      BY <2>3 DEF Asking
    <3> HIDE DEF m, v
    <3>3. /\ ServiceWorld(v) /\ Flows(w, v) /\ v.manager = m
          /\ v.proxy = w.proxy /\ v.call = w.call
      BY <3>1, <3>2, ManagerOfService
    <3>4. QED
      BY <3>1, <3>3 DEF Broken, v
  <2>4. ASSUME NEW k \in {"peer", "bus"}, v = EmitConnected(Joined(w, k))
        PROVE  /\ ServiceWorld(v) /\ Flows(w, v)
               /\ v.proxy[Main].path = w.proxy[Main].path
               /\ v.manager.connection = "down" => w.manager.connection = "down"
               /\ Broken(w) => Broken(v)
    <3>1. /\ ServiceWorld(v) /\ Flows(w, v) /\ v.proxy[Main].path = w.proxy[Main].path
          /\ v.manager.connection = k
          /\ w.proxy[Main].path = "none" => \A c \in Own : v.call[c] = w.call[c]
      BY <2>1, <2>4, JoinedService
    <3> HIDE DEF v
    <3>2. Broken(w) => w.proxy[Main].path = "none"
      BY DEF Broken, ServiceWorld, ServiceProxy
    <3>3. Broken(w) => Broken(v)
      BY <3>1, <3>2 DEF Broken
    <3>4. QED
      BY <3>1, <3>3
  <2>5. QED
    BY <2>1, <2>2, <2>3, <2>4, SetupEffect
<1>3. QED
  BY <1>1, <1>2

\* A call waits for a connection.
LEMMA InQueueService ==
  ASSUME NEW w, ServiceWorld(w), NEW c \in Own, w.proxy[Main].status = "Incomplete"
  PROVE  LET u == InQueue(w, c) IN
         /\ ServiceWorld(u) /\ u.proxy = w.proxy /\ u.call[c].state = "queued"
         /\ \A d \in Own \ {c} : u.call[d] = w.call[d]
         /\ Broken(w) => Broken(u)
         /\ Enqueue(w, c) = IF w.proxy[Main].connected THEN u ELSE Connect(u)
<1> DEFINE u == InQueue(w, c)
<1>1. c \in Call /\ ProxyOf(c) = Main /\ IsWorld(w)
  BY ProxyOfCall DEF ServiceWorld
<1>2. /\ IsWorld(u) /\ Same(w, u) /\ u.manager = w.manager /\ u.proxy = w.proxy
      /\ u.call[c].state = "queued"
      /\ \A d \in Call \ {c} : u.call[d] = w.call[d]
      /\ Enqueue(w, c) = IF w.proxy[Main].connected THEN u ELSE Connect(u)
  BY <1>1, EnqueueEffect
<1> HIDE DEF u
<1>3. \A d \in Own \ {c} : u.call[d] = w.call[d]
  BY <1>2, ProxyOfCall
<1>4. DOMAIN u = {"manager", "proxy", "call"}
  BY <1>2 DEF ServiceWorld, Same
<1>5. u.call[c].answers = {}
  BY <1>1, <1>2 DEF IsWorld
<1>6. ServiceProxy(u)
  BY <1>2 DEF ServiceWorld, ServiceProxy, Connected
<1>7. ServiceCalls(u)
  BY <1>2, <1>3, <1>5 DEF ServiceWorld, ServiceCalls
<1>8. Broken(w) => Broken(u)
  BY <1>2, <1>3 DEF Broken
<1>9. QED
  BY <1>2, <1>3, <1>4, <1>6, <1>7, <1>8 DEF ServiceWorld, u

\* A call is put into the queue, which may bring about a connection.
LEMMA EnqueueService ==
  ASSUME NEW w, ServiceWorld(w), NEW c \in Own, w.proxy[Main].status = "Incomplete"
  PROVE  LET v == Enqueue(w, c) IN
         /\ ServiceWorld(v) /\ v.proxy[Main].path = w.proxy[Main].path
         /\ v.call[c].state \in {"queued", "sent"}
         /\ \A d \in Own \ {c} : \/ v.call[d].state = w.call[d].state
                                 \/ w.call[d].state = "queued" /\ v.call[d].state = "sent"
         /\ \/ /\ v.call[c].state = "queued"
               /\ \A d \in Own \ {c} : v.call[d].state = w.call[d].state
            \/ \A d \in Own : v.call[d].state # "queued"
         /\ Broken(w) => Broken(v)
<1> DEFINE u == InQueue(w, c)
           v == Enqueue(w, c)
<1>1. /\ ServiceWorld(u) /\ u.proxy = w.proxy /\ u.call[c].state = "queued"
      /\ \A d \in Own \ {c} : u.call[d] = w.call[d]
      /\ Broken(w) => Broken(u)
      /\ v = IF w.proxy[Main].connected THEN u ELSE Connect(u)
  BY InQueueService
<1> HIDE DEF u
<1>2. CASE w.proxy[Main].connected
  BY <1>1, <1>2
<1>3. CASE ~w.proxy[Main].connected
  <2>1. ~Connected(u) /\ ~u.proxy[Main].connected
    BY <1>1, <1>3 DEF ServiceWorld, ServiceProxy
  <2>2. v = Setup(u)
    BY <1>1, <1>3, <2>1 DEF Connect
  <2>3. /\ ServiceWorld(v) /\ Flows(u, v) /\ v.proxy[Main].path = u.proxy[Main].path
        /\ Broken(u) => Broken(v)
    BY <1>1, <2>1, <2>2, SetupService
  <2> HIDE DEF v
  <2>4. v.call[c].state \in {"queued", "sent"}
    BY <1>1, <2>3 DEF Flows
  <2>5. \A d \in Own \ {c} :
          \/ v.call[d].state = w.call[d].state
          \/ w.call[d].state = "queued" /\ v.call[d].state = "sent"
    BY <1>1, <2>3 DEF Flows
  <2>6. \/ /\ v.call[c].state = "queued"
           /\ \A d \in Own \ {c} : v.call[d].state = w.call[d].state
        \/ \A d \in Own : v.call[d].state # "queued"
    <3>1. CASE \A d \in Own : v.call[d].state = u.call[d].state
      BY <1>1, <3>1
    <3>2. QED
      BY <2>3, <3>1 DEF Flows
  <2>7. QED
    BY <1>1, <2>3, <2>4, <2>5, <2>6 DEF v
<1>4. QED
  BY <1>2, <1>3

\* queueCall(): no call is sent before another that waits.
LEMMA QueueService ==
  ASSUME NEW w, ServiceWorld(w), NEW c \in Own, w.call[c].state = "none"
  PROVE  LET v == QueueCall(w, c) IN
         /\ ServiceWorld(v)
         /\ v.call[c].state \in {"queued", "sent"}
         /\ \A d \in Own \ {c} : \/ v.call[d].state = w.call[d].state
                                 \/ w.call[d].state = "queued" /\ v.call[d].state = "sent"
         /\ \/ /\ v.call[c].state = "queued"
               /\ \A d \in Own \ {c} : v.call[d].state = w.call[d].state
            \/ \A d \in Own : v.call[d].state # "queued"
         /\ Broken(w) => Broken(v)
<1> DEFINE v == QueueCall(w, c)
<1>1. c \in Call /\ ProxyOf(c) = Main /\ IsWorld(w)
  BY ProxyOfCall DEF ServiceWorld
<1>2. CASE w.proxy[Main].status = "Ready"
  <2>1. /\ IsWorld(v) /\ Same(w, v) /\ v.manager = w.manager /\ v.proxy = w.proxy
        /\ v.call[c] = Sent(w, Main)
        /\ \A d \in Call \ {c} : v.call[d] = w.call[d]
    BY <1>1, <1>2, QueueCallEffect DEF Added
  <2> HIDE DEF v
  <2>2. \A d \in Own \ {c} : v.call[d] = w.call[d]
    BY <2>1, ProxyOfCall
  <2>3. w.proxy[Main].connected /\ w.proxy[Main].path = "daemon"
    BY <1>2 DEF ServiceWorld, ServiceProxy
  <2>4. ~Connected(w) <=> w.manager.connection = "down"
    BY <1>1, <2>3 DEF Connected, ServiceWorld, ServiceProxy, IsWorld, ManagerType
  <2>5. /\ v.call[c].state = "sent" /\ ~v.call[c].destroyed
        /\ v.call[c].answers = IF w.manager.connection = "down" THEN {"Disconnected"}
                               ELSE {"success", "error"}
    BY <2>1, <2>3, <2>4, SentCall
  <2>6. DOMAIN v = {"manager", "proxy", "call"}
    BY <2>1 DEF ServiceWorld, Same
  <2>7. ServiceProxy(v)
    BY <2>1 DEF ServiceWorld, ServiceProxy, Connected
  <2>8. ServiceCalls(v)
    <3>1. ASSUME NEW d \in Own
          PROVE  LET r == v.call[d]
                     n == v.proxy[Main]
                 IN /\ r.state # "failing"
                    /\ r.state = "queued" => n.status = "Incomplete"
                    /\ "UnknownObject" \notin r.answers
                    /\ r.state = "sent" /\ v.manager.connection = "down" =>
                         "Disconnected" \in r.answers
                    /\ r.state = "sent" /\ n.path = "none" => r.answers = {"Disconnected"}
                    /\ r.state = "sent" /\ r.destroyed => n.path = "none"
                    /\ "Disconnected" \in r.answers =>
                         n.path = "none" \/ v.manager.connection = "down"
      <4>1. CASE d = c
        BY <2>1, <2>3, <2>5, <4>1
      <4>2. CASE d # c
        BY <2>1, <2>2, <4>2 DEF ServiceWorld, ServiceCalls
      <4>3. QED
        BY <4>1, <4>2
    <3>2. QED
      BY <3>1 DEF ServiceCalls
  <2>9. \A d \in Own : v.call[d].state # "queued"
    BY <1>2, <2>2, <2>5 DEF ServiceWorld, ServiceCalls
  <2>10. Broken(w) => Broken(v)
    BY <2>1, <2>2, <2>3, <2>5 DEF Broken
  <2>11. QED
    BY <2>1, <2>2, <2>5, <2>6, <2>7, <2>8, <2>9, <2>10 DEF ServiceWorld, v
<1>3. CASE w.proxy[Main].status # "Ready"
  <2>1. w.proxy[Main].status = "Incomplete"
    BY <1>3 DEF ServiceWorld, ServiceProxy
  <2>2. v = Enqueue(w, c)
    BY <1>1, <2>1, QueueCallEffect
  <2> HIDE DEF v
  <2>3. QED
    BY <2>1, <2>2, EnqueueService DEF v
<1>4. QED
  BY <1>2, <1>3

\* A call fails with its connection: no other is answered any more.
LEMMA HeardEffect ==
  ASSUME ServiceWorld(service), NEW answer \in Answer
  PROVE  LET v == Heard(answer) IN
         /\ ServiceWorld(v)
         /\ \A d \in Own : v.call[d].state = service.call[d].state
         /\ answer # "Disconnected" => v.call = service.call
         /\ v.proxy = service.proxy /\ v.manager = service.manager
         /\ \A d \in Own : answer = "Disconnected" /\ answer \in service.call[d].answers =>
              Broken(v)
<1> DEFINE v == Heard(answer)
           F(d) == IF answer = "Disconnected" /\ answer \in service.call[d].answers
                     THEN [service.call[d] EXCEPT !.answers = {answer}] ELSE service.call[d]
<1>1. IsWorld(service) /\ DOMAIN service = {"manager", "proxy", "call"}
  BY DEF ServiceWorld
<1>2. /\ v = [service EXCEPT !.call = [d \in Call |-> F(d)]]
  BY DEF Heard
<1>3. \A d \in Call :
        /\ F(d) \in CallType /\ F(d).state = service.call[d].state
        /\ F(d).destroyed = service.call[d].destroyed
        /\ F(d).answers = IF answer = "Disconnected" /\ answer \in service.call[d].answers
                            THEN {"Disconnected"} ELSE service.call[d].answers
        /\ answer # "Disconnected" => F(d) = service.call[d]
  <2> SUFFICES ASSUME NEW d \in Call
               PROVE  /\ F(d) \in CallType /\ F(d).state = service.call[d].state
                      /\ F(d).destroyed = service.call[d].destroyed
                      /\ F(d).answers =
                           IF answer = "Disconnected" /\ answer \in service.call[d].answers
                             THEN {"Disconnected"} ELSE service.call[d].answers
                      /\ answer # "Disconnected" => F(d) = service.call[d]
    OBVIOUS
  <2> DEFINE r == service.call[d]
             x == [r EXCEPT !.answers = {answer}]
  <2>1. r \in CallType
    BY <1>1 DEF IsWorld
  <2>2. /\ x \in CallType /\ x.state = r.state /\ x.destroyed = r.destroyed
        /\ x.answers = {answer}
    BY <2>1 DEF CallType
  <2>3. F(d) = IF answer = "Disconnected" /\ answer \in r.answers THEN x ELSE r
    OBVIOUS
  <2> HIDE DEF F, x, r
  <2>4. QED
    BY <2>1, <2>2, <2>3 DEF r
<1> HIDE DEF F, v
<1>4. /\ DOMAIN v = {"manager", "proxy", "call"}
      /\ v.manager = service.manager /\ v.proxy = service.proxy
      /\ v.call = [d \in Call |-> F(d)]
  BY <1>1, <1>2
<1>5. \A d \in Call :
        /\ v.call[d].state = service.call[d].state
        /\ v.call[d].destroyed = service.call[d].destroyed
        /\ v.call[d].answers = IF answer = "Disconnected" /\ answer \in service.call[d].answers
                                 THEN {"Disconnected"} ELSE service.call[d].answers
        /\ answer # "Disconnected" => v.call[d] = service.call[d]
  BY <1>3, <1>4
<1>6. v.call \in [Call -> CallType]
  BY <1>3, <1>4
<1>7. IsWorld(v)
  BY <1>1, <1>4, <1>5, <1>6 DEF IsWorld
<1>8. answer # "Disconnected" => v.call = service.call
  BY <1>1, <1>5, <1>6 DEF IsWorld
<1>9. ServiceProxy(v)
  BY <1>4 DEF ServiceWorld, ServiceProxy, Connected
<1>10. ServiceCalls(v)
  BY <1>4, <1>5, ProxyOfCall DEF ServiceWorld, ServiceCalls
<1>11. ASSUME NEW d \in Own, answer = "Disconnected", answer \in service.call[d].answers
       PROVE  Broken(v)
  <2>1. service.proxy[Main].path = "none" \/ service.manager.connection = "down"
    BY <1>11 DEF ServiceWorld, ServiceCalls
  <2>2. \A e \in Own : v.call[e].state = "sent" => v.call[e].answers = {"Disconnected"}
    BY <1>5, <1>11, <2>1, ProxyOfCall DEF ServiceWorld, ServiceCalls
  <2>3. QED
    BY <1>4, <2>1, <2>2 DEF Broken
<1>12. QED
  BY <1>4, <1>5, <1>7, <1>8, <1>9, <1>10, <1>11, ProxyOfCall DEF ServiceWorld, v

\* A call has ended.
LEMMA FinishedService ==
  ASSUME NEW w, ServiceWorld(w), NEW c \in Own
  PROVE  LET v == Finished(w, c) IN
         /\ ServiceWorld(v) /\ v.call[c].state = "done"
         /\ \A d \in Own \ {c} : v.call[d] = w.call[d]
         /\ Broken(w) => Broken(v)
<1> DEFINE v == Finished(w, c)
<1>1. c \in Call /\ c \notin Reg /\ IsWorld(w)
  BY ProxyOfCall DEF ServiceWorld
<1>2. v = [w EXCEPT !.call = [w.call EXCEPT ![c] = DoneCall]]
  BY <1>1 DEF Finished, DoneCall
<1> HIDE DEF v
<1>3. /\ DOMAIN v = DOMAIN w /\ v.manager = w.manager /\ v.proxy = w.proxy
      /\ v.call = [w.call EXCEPT ![c] = DoneCall]
  BY <1>2 DEF ServiceWorld
<1>4. v.call[c] = DoneCall /\ \A d \in Call \ {c} : v.call[d] = w.call[d]
  BY <1>1, <1>3 DEF IsWorld
<1>5. v.call \in [Call -> CallType]
  BY <1>1, <1>3, BlankCalls DEF IsWorld
<1>6. IsWorld(v)
  BY <1>1, <1>3, <1>4, <1>5, BlankCalls DEF IsWorld
<1>7. \A d \in Own \ {c} : v.call[d] = w.call[d]
  BY <1>4, ProxyOfCall
<1>8. ServiceProxy(v)
  BY <1>3 DEF ServiceWorld, ServiceProxy, Connected
<1>9. ServiceCalls(v)
  BY <1>3, <1>4, <1>7, BlankCalls DEF ServiceWorld, ServiceCalls
<1>10. Broken(w) => Broken(v)
  BY <1>3, <1>4, <1>7, BlankCalls DEF Broken
<1>11. QED
  BY <1>3, <1>4, <1>6, <1>7, <1>8, <1>9, <1>10, BlankCalls DEF ServiceWorld, v

\* The daemon ends.
LEMMA EndsService ==
  ASSUME NEW w, ServiceWorld(w), MayEnd(w)
  PROVE  LET v == DaemonEnds(w) IN
         /\ ServiceWorld(v) /\ \A c \in Own : v.call[c].state = w.call[c].state
         /\ Broken(w) => Broken(v)
<1> DEFINE v == DaemonEnds(w)
           peer == w.manager.connection = "peer"
           A == IF peer THEN {"NoReply", "Disconnected"} ELSE {"NoReply"}
<1>1. IsWorld(w) /\ DOMAIN w = {"manager", "proxy", "call"}
  BY DEF ServiceWorld
<1>2. A \in SUBSET Answer /\ A # {}
  BY DEF Answer
<1>3. /\ IsWorld(v) /\ Same(w, v)
      /\ v.manager.connection = IF peer THEN "down" ELSE w.manager.connection
      /\ v.manager.lost = (w.manager.lost \/ peer)
      /\ v.manager.activation = w.manager.activation
      /\ \A p \in Proxy :
           /\ v.proxy[p].status = w.proxy[p].status
           /\ v.proxy[p].connected = w.proxy[p].connected
           /\ p # Main => v.proxy[p] = w.proxy[p]
      /\ v.proxy[Main].path = IF w.proxy[Main].path = "live" THEN "dead" ELSE w.proxy[Main].path
      /\ v.call = Lost(w.call, Call, A)
  BY <1>1, DaemonEndsEffect
<1>4. v.manager.service = w.manager.service
  BY <1>1 DEF DaemonEnds, IsWorld, ManagerType
<1> HIDE DEF v, A
<1>5. \A c \in Call :
        /\ v.call[c].state = w.call[c].state
        /\ v.call[c].destroyed = w.call[c].destroyed
        /\ v.call[c].answers =
             IF w.call[c].state = "sent" /\ w.call[c].answers # {"Disconnected"}
               THEN w.call[c].answers \cup A ELSE w.call[c].answers
  <2>1. /\ w.call \in [Call -> CallType]
        /\ \A c \in Call : (w.call[c].state = "sent") = (w.call[c].answers # {})
    BY <1>1 DEF IsWorld
  <2> DEFINE x == Lost(w.call, Call, A)
  <2>2. \A c \in Call :
          /\ x[c].state = w.call[c].state /\ x[c].tried = w.call[c].tried
          /\ x[c].destroyed = w.call[c].destroyed
          /\ x[c].answers =
               IF c \in Call /\ w.call[c].state = "sent" /\ w.call[c].answers # {"Disconnected"}
                 THEN w.call[c].answers \cup A ELSE w.call[c].answers
          /\ (x[c].state = "sent") = (x[c].answers # {})
    <3>1. LostTo(w.call, Call, A, x)
      BY <1>2, <2>1, LostEffect
    <3> HIDE DEF x
    <3>2. QED
      BY <3>1 DEF LostTo
  <2> HIDE DEF x
  <2>3. v.call = x
    BY <1>3 DEF x
  <2>4. QED
    BY <2>2, <2>3
<1>6. /\ v.proxy[Main].status = w.proxy[Main].status
      /\ v.proxy[Main].connected = w.proxy[Main].connected
      /\ v.proxy[Main].path = w.proxy[Main].path
  BY <1>3, ProxyOfCall DEF ServiceWorld, ServiceProxy
<1>7. DOMAIN v = {"manager", "proxy", "call"}
  BY <1>1, <1>3 DEF Same
<1>8. ServiceProxy(v)
  <2>1. w.manager.connection \in {"peer", "bus"} => w.proxy[Main].connected
    BY DEF ServiceWorld, ServiceProxy, Connected
  <2>2. v.manager.connection \in {"peer", "bus"} => w.proxy[Main].connected
    BY <1>3, <2>1
  <2>3. QED
    BY <1>3, <1>4, <1>6, <2>1, <2>2 DEF ServiceWorld, ServiceProxy, Connected
<1>9. ServiceCalls(v)
  <2> SUFFICES ASSUME NEW c \in Own
               PROVE  LET r == v.call[c]
                          n == v.proxy[Main]
                      IN /\ r.state # "failing"
                         /\ r.state = "queued" => n.status = "Incomplete"
                         /\ "UnknownObject" \notin r.answers
                         /\ r.state = "sent" /\ v.manager.connection = "down" =>
                              "Disconnected" \in r.answers
                         /\ r.state = "sent" /\ n.path = "none" => r.answers = {"Disconnected"}
                         /\ r.state = "sent" /\ r.destroyed => n.path = "none"
                         /\ "Disconnected" \in r.answers =>
                              n.path = "none" \/ v.manager.connection = "down"
    BY DEF ServiceCalls
  <2>1. c \in Call
    BY ProxyOfCall
  <2>2. /\ w.call[c].state # "failing"
        /\ w.call[c].state = "queued" => w.proxy[Main].status = "Incomplete"
        /\ "UnknownObject" \notin w.call[c].answers
        /\ w.call[c].state = "sent" /\ w.manager.connection = "down" =>
             "Disconnected" \in w.call[c].answers
        /\ w.call[c].state = "sent" /\ w.proxy[Main].path = "none" =>
             w.call[c].answers = {"Disconnected"}
        /\ w.call[c].state = "sent" /\ w.call[c].destroyed => w.proxy[Main].path = "none"
        /\ "Disconnected" \in w.call[c].answers =>
             w.proxy[Main].path = "none" \/ w.manager.connection = "down"
    BY DEF ServiceWorld, ServiceCalls
  <2>3. /\ v.call[c].state = w.call[c].state /\ v.call[c].destroyed = w.call[c].destroyed
        /\ v.call[c].answers =
             IF w.call[c].state = "sent" /\ w.call[c].answers # {"Disconnected"}
               THEN w.call[c].answers \cup A ELSE w.call[c].answers
    BY <1>5, <2>1
  <2>4. CASE peer
    <3>1. A = {"NoReply", "Disconnected"} /\ v.manager.connection = "down"
      BY <1>3, <2>4 DEF A
    <3>2. QED
      BY <1>6, <2>2, <2>3, <3>1
  <2>5. CASE ~peer
    <3>1. A = {"NoReply"} /\ v.manager.connection = w.manager.connection
      BY <1>3, <2>5 DEF A
    <3>2. QED
      BY <1>6, <2>2, <2>3, <3>1
  <2>6. QED
    BY <2>4, <2>5
<1>10. Broken(w) => Broken(v)
  <2>1. \A c \in Own : w.call[c].answers = {"Disconnected"} =>
          v.call[c].answers = {"Disconnected"}
    BY <1>5, ProxyOfCall
  <2>2. \A c \in Own : v.call[c].state = w.call[c].state
    BY <1>5, ProxyOfCall
  <2>3. w.manager.connection = "down" => v.manager.connection = "down"
    BY <1>3
  <2>4. QED
    BY <1>6, <2>1, <2>2, <2>3 DEF Broken
<1>11. QED
  BY <1>3, <1>5, <1>7, <1>8, <1>9, <1>10, ProxyOfCall DEF ServiceWorld, v

\* The bus answers the request to start the daemon.
LEMMA ActivatedService ==
  ASSUME NEW w, ServiceWorld(w), NEW ok \in BOOLEAN, MayActivate(w, ok)
  PROVE  LET v == Activated(w, ok) IN
         /\ ServiceWorld(v) /\ v.proxy = w.proxy /\ v.call = w.call
         /\ Broken(w) => Broken(v)
<1> DEFINE o == w.manager
           m == [o EXCEPT !.activation = IF ok THEN "done" ELSE "failed", !.daemon = @ \/ ok]
           v == Activated(w, ok)
<1>1. o \in ManagerType /\ o.activation = "asked"
  BY DEF ServiceWorld, IsWorld, MayActivate
<1>2. /\ m \in ManagerType /\ m.connection = o.connection /\ m.lost = o.lost
      /\ m.service = o.service
  <2> DEFINE d == o.daemon \/ ok
             a == IF ok THEN "done" ELSE "failed"
  <2>1. d \in BOOLEAN /\ a \in {"none", "asked", "done", "failed"}
    BY <1>1 DEF ManagerType
  <2>2. m = [o EXCEPT !.activation = a, !.daemon = d]
    OBVIOUS
  <2> HIDE DEF m, d, a
  <2>3. QED
    BY <1>1, <2>1, <2>2 DEF ManagerType
<1>3. v = [w EXCEPT !.manager = m]
  BY DEF Activated
<1>4. ~w.proxy[Main].connected /\ o.service = "activating"
  BY <1>1 DEF ServiceWorld, ServiceProxy
<1> HIDE DEF m, v
<1>5. /\ ServiceWorld(v) /\ v.manager = m /\ v.proxy = w.proxy /\ v.call = w.call
  BY <1>2, <1>3, <1>4, ManagerOfService
<1>6. Broken(w) => Broken(v)
  BY <1>2, <1>5 DEF Broken
<1>7. QED
  BY <1>5, <1>6 DEF v

\* onActivationDone()
LEMMA ActivationDoneService ==
  ASSUME NEW w, ServiceWorld(w), w.manager.activation \in {"done", "failed"}
  PROVE  LET v == OnActivationDone(w) IN
         /\ ServiceWorld(v) /\ Flows(w, v)
         /\ Broken(w) => Broken(v)
<1> DEFINE v == OnActivationDone(w)
<1>1. IsWorld(w) /\ ~w.proxy[Main].connected
  BY DEF ServiceWorld, ServiceProxy
<1>2. PICK s \in {"unknown", "activating", "activated"} :
        v = Settled(w, s) \/ v = Setup(Settled(w, s))
  BY <1>1, OnActivationDoneEffect
<1> DEFINE u == Settled(w, s)
           m == [w.manager EXCEPT !.activation = "none", !.service = s]
<1>3. /\ m \in ManagerType /\ m.connection = w.manager.connection
      /\ m.lost = w.manager.lost /\ m.activation = "none"
  BY <1>1 DEF IsWorld, ManagerType
<1>4. u = [w EXCEPT !.manager = m]
  BY DEF Settled
<1> HIDE DEF m, u
<1>5. /\ ServiceWorld(u) /\ Flows(w, u) /\ u.manager = m
      /\ u.proxy = w.proxy /\ u.call = w.call
  BY <1>3, <1>4, ManagerOfService
<1>6. Broken(w) => Broken(u)
  BY <1>3, <1>5 DEF Broken
<1>7. CASE v = u
  BY <1>5, <1>6, <1>7
<1>8. CASE v = Setup(u)
  <2>1. ~u.proxy[Main].connected
    BY <1>1, <1>5
  <2>2. ServiceWorld(v) /\ Flows(u, v) /\ (Broken(u) => Broken(v))
    BY <1>5, <1>8, <2>1, SetupService
  <2> HIDE DEF v
  <2>3. Flows(w, v)
    BY <1>5, <2>2 DEF Flows
  <2>4. QED
    BY <1>6, <2>2, <2>3 DEF v
<1>9. QED
  BY <1>2, <1>7, <1>8 DEF u

\* onDisconnected(): the connection has gone, and the path with it.
LEMMA DisconnectedService ==
  ASSUME NEW w, ServiceWorld(w), w.manager.lost
  PROVE  LET v == OnDisconnected(w) IN
         /\ ServiceWorld(v) /\ \A c \in Own : v.call[c].state = w.call[c].state
         /\ Broken(v)
<1> DEFINE u == Cut(w)
           v == OnDisconnected(w)
<1>1. /\ IsWorld(w) /\ DOMAIN w = {"manager", "proxy", "call"}
      /\ w.proxy[Main].connected /\ w.manager.connection = "down"
      /\ w.manager.activation = "none"
  BY DEF ServiceWorld, ServiceProxy
<1>2. /\ IsWorld(u) /\ Same(w, u) /\ u.proxy = w.proxy
      /\ u.manager = [w.manager EXCEPT !.lost = FALSE, !.service = "unknown"]
      /\ \A c \in Call :
           /\ u.call[c].state = w.call[c].state /\ u.call[c].tried = w.call[c].tried
           /\ u.call[c].destroyed = w.call[c].destroyed
           /\ u.call[c].answers = IF "Disconnected" \in w.call[c].answers
                                    THEN {"Disconnected"} ELSE w.call[c].answers
      /\ v = EmitDisconnected(u)
  BY <1>1, CutEffect
<1> HIDE DEF u
<1>3. /\ u.manager.connection = "down" /\ ~u.manager.lost /\ u.manager.activation = "none"
  BY <1>1, <1>2 DEF IsWorld, ManagerType
<1>4. /\ IsWorld(v) /\ Same(u, v) /\ v.manager = u.manager
      /\ \A p \in Proxy :
           IF u.proxy[p].status = "none" THEN v.proxy[p] = u.proxy[p]
           ELSE v.proxy[p] = [connected |-> FALSE, path |-> "none", status |-> "Incomplete"]
      /\ \A c \in Call :
           v.call[c] = IF u.call[c].state = "sent" /\ u.proxy[ProxyOf(c)].status = "Ready"
                         THEN [u.call[c] EXCEPT !.destroyed = TRUE] ELSE u.call[c]
  BY <1>2, EmitDisconnectedEffect
<1> HIDE DEF v
<1>5. v.proxy[Main] = [connected |-> FALSE, path |-> "none", status |-> "Incomplete"]
  BY <1>2, <1>4, ProxyOfCall DEF IsWorld
<1>6. DOMAIN v = {"manager", "proxy", "call"}
  BY <1>1, <1>2, <1>4 DEF Same
<1>7. ASSUME NEW c \in Own
      PROVE  /\ v.call[c].state = w.call[c].state
             /\ v.call[c].answers = IF "Disconnected" \in w.call[c].answers
                                      THEN {"Disconnected"} ELSE w.call[c].answers
  <2>1. c \in Call /\ u.call[c] \in CallType
    BY <1>2, ProxyOfCall DEF IsWorld
  <2> DEFINE x == [u.call[c] EXCEPT !.destroyed = TRUE]
  <2>2. x.state = u.call[c].state /\ x.answers = u.call[c].answers
    BY <2>1 DEF CallType
  <2>3. v.call[c] = x \/ v.call[c] = u.call[c]
    BY <1>4, <2>1
  <2> HIDE DEF x
  <2>4. QED
    BY <1>2, <2>1, <2>2, <2>3
<1>8. \A c \in Own : v.call[c].state = "sent" => v.call[c].answers = {"Disconnected"}
  BY <1>1, <1>7 DEF ServiceWorld, ServiceCalls
<1>9. ServiceProxy(v)
  BY <1>3, <1>4, <1>5 DEF ServiceProxy, Connected
<1>10. ServiceCalls(v)
  <2>1. \A c \in Own : v.call[c].state # "failing" /\ "UnknownObject" \notin v.call[c].answers
    BY <1>7 DEF ServiceWorld, ServiceCalls
  <2>2. QED
    BY <1>5, <1>8, <2>1 DEF ServiceCalls
<1>11. QED
  BY <1>4, <1>5, <1>6, <1>7, <1>8, <1>9, <1>10 DEF ServiceWorld, Broken, v

\* The constructor
LEMMA ServiceStarts ==
  ASSUME NEW peerBus \in BOOLEAN, NEW daemon \in BOOLEAN, NEW ends \in 0 .. MaxEnds
  PROVE  LET v == Constructed(peerBus, daemon, ends) IN
         ServiceWorld(v) /\ \A c \in Own : v.call[c].state = "none"
<1> DEFINE w == [manager |-> [peerBus |-> peerBus, connection |-> "none", lost |-> FALSE,
                              service |-> "unknown", activation |-> "none",
                              daemon |-> daemon, ends |-> ends],
                 proxy |-> [p \in Proxy |->
                    IF p = Main THEN [NoProxy EXCEPT !.status = "Incomplete"] ELSE NoProxy],
                 call |-> [c \in Call |-> NoCall]]
           u == Setup(w)
           v == SetObjectPath(u, "daemon")
<1>1. IsWorld(w) /\ v = Constructed(peerBus, daemon, ends)
  BY FreshEffect DEF Constructed
<1>2. /\ DOMAIN w = {"manager", "proxy", "call"}
      /\ w.manager.connection = "none" /\ ~w.manager.lost /\ w.manager.activation = "none"
      /\ w.proxy[Main].status = "Incomplete" /\ w.proxy[Main].path = "none"
      /\ ~w.proxy[Main].connected
      /\ \A c \in Call : w.call[c] = NoCall
  BY ProxyOfCall DEF NoProxy
<1> HIDE DEF w
<1>3. ServiceWorld(w)
  <2>1. ServiceProxy(w)
    BY <1>2 DEF ServiceProxy, Connected
  <2>2. ServiceCalls(w)
    BY <1>2, ProxyOfCall DEF ServiceCalls, NoCall
  <2>3. QED
    BY <1>1, <1>2, <2>1, <2>2 DEF ServiceWorld
<1>4. /\ ServiceWorld(u) /\ Flows(w, u) /\ u.proxy[Main].path = "none"
      /\ u.manager.connection # "down"
  BY <1>2, <1>3, SetupService
<1> HIDE DEF u
<1>5. \A c \in Own : w.call[c].state = "none"
  BY <1>2, ProxyOfCall DEF NoCall
<1>6. \A c \in Own : u.call[c].state = "none"
  BY <1>4, <1>5 DEF Flows
<1>7. IsWorld(u) /\ u.proxy[Main].path = "none" /\ DOMAIN u = {"manager", "proxy", "call"}
  BY <1>4 DEF ServiceWorld
<1>8. /\ IsWorld(v) /\ Same(u, v) /\ v.manager = u.manager
      /\ v.proxy[Main].path = "daemon" /\ v.proxy[Main].connected = u.proxy[Main].connected
      /\ v.proxy[Main].status =
           IF ~u.proxy[Main].connected THEN "Incomplete"
           ELSE IF Connected(u) THEN "Ready" ELSE "Invalid"
      /\ \A c \in Own :
           v.call[c] =
             IF u.call[c].state = "queued" /\ v.proxy[Main].status = "Ready" THEN Sent(v, Main)
             ELSE IF u.call[c].state = "sent" /\ u.proxy[Main].status = "Ready"
               THEN [u.call[c] EXCEPT !.destroyed = TRUE]
             ELSE u.call[c]
  BY <1>7, SetObjectPathEffect
<1> HIDE DEF v
<1>9. \A c \in Own : v.call[c] = u.call[c]
  BY <1>6, <1>8
<1>10. DOMAIN v = {"manager", "proxy", "call"}
  BY <1>7, <1>8 DEF Same
<1>11. ServiceProxy(v)
  BY <1>4, <1>7, <1>8 DEF ServiceWorld, ServiceProxy, Connected, IsWorld, ManagerType
<1>12. ServiceCalls(v)
  <2>1. \A c \in Own : v.call[c].state = "none" /\ v.call[c].answers = {}
    BY <1>6, <1>7, <1>9, ProxyOfCall DEF IsWorld
  <2>2. QED
    BY <2>1 DEF ServiceCalls
<1>13. QED
  BY <1>1, <1>6, <1>8, <1>9, <1>10, <1>11, <1>12 DEF ServiceWorld

-----------------------------------------------------------------------------
\* The worlds are records

IsRecord(w) == w = [f \in DOMAIN w |-> w[f]]

LEMMA UpdateIsRecord ==
  ASSUME NEW w, NEW P
  PROVE  IsRecord(Update(w, P))
BY DEF IsRecord, Update

LEMMA EmitIsRecord ==
  ASSUME NEW w
  PROVE  /\ IsRecord(EmitConnected(w)) /\ IsRecord(EmitDisconnected(w))
         /\ \A path : IsRecord(SetObjectPath(w, path))
BY UpdateIsRecord DEF EmitConnected, EmitDisconnected, SetObjectPath

LEMMA SetupIsRecord ==
  ASSUME NEW w, IsRecord(w)
  PROVE  IsRecord(Setup(w)) /\ IsRecord(Connect(w))
<1>1. \A s, a : IsRecord([w EXCEPT !.manager.service = s, !.manager.activation = a])
  BY DEF IsRecord
<1>2. \A u : IsRecord(EmitConnected(u))
  BY EmitIsRecord
<1>3. IsRecord(Setup(w))
  BY <1>1, <1>2, Zenon DEF Setup
<1>4. QED
  BY <1>2, <1>3 DEF Connect

LEMMA QueueIsRecord ==
  ASSUME NEW w, NEW c
  PROVE  IsRecord(Enqueue(w, c)) /\ IsRecord(QueueCall(w, c))
<1> DEFINE v == [w EXCEPT !.call[c].state = "queued", !.call[c].destroyed = FALSE,
                          !.call[c].answers = {}]
<1>1. IsRecord(v)
  BY DEF IsRecord
<1> HIDE DEF v
<1>2. IsRecord(Enqueue(w, c))
  BY <1>1, SetupIsRecord DEF Enqueue, v
<1>3. /\ IsRecord([w EXCEPT !.call[c] = Sent(w, ProxyOf(c))])
      /\ IsRecord([w EXCEPT !.call[c].state = "failing"])
  BY DEF IsRecord
<1>4. QED
  BY <1>2, <1>3 DEF QueueCall

LEMMA StepIsRecord ==
  ASSUME NEW w
  PROVE  /\ IsRecord(DaemonEnds(w)) /\ IsRecord(OnDisconnected(w)) /\ IsRecord(OnActivationDone(w))
         /\ \A c : IsRecord(Finished(w, c))
         /\ \A ok : IsRecord(Activated(w, ok))
<1>1. IsRecord(DaemonEnds(w))
  <2>1. \A u, x : IsRecord([u EXCEPT !.proxy = x])
    BY DEF IsRecord
  <2>2. QED
    BY <2>1, Zenon DEF DaemonEnds
<1>2. IsRecord(OnDisconnected(w))
  BY EmitIsRecord DEF OnDisconnected
<1>3. IsRecord(OnActivationDone(w))
  <2>1. /\ IsRecord([w EXCEPT !.manager.activation = "none"])
        /\ \A u : IsRecord([u EXCEPT !.manager.service = "activated"])
    BY DEF IsRecord
  <2>2. QED
    BY <2>1, SetupIsRecord, Zenon DEF OnActivationDone
<1>4. \A c : IsRecord(Finished(w, c))
  <2>1. \A c : /\ IsRecord([w EXCEPT !.call[c] = NoCall, !.proxy[c] = NoProxy])
               /\ IsRecord([w EXCEPT !.call[c] = [NoCall EXCEPT !.state = "done"]])
    BY DEF IsRecord
  <2>2. QED
    BY <2>1, Zenon DEF Finished
<1>5. \A ok : IsRecord(Activated(w, ok))
  BY DEF IsRecord, Activated
<1>6. QED
  BY <1>1, <1>2, <1>3, <1>4, <1>5

-----------------------------------------------------------------------------
\* The steps of the service

\* A record of the three members is what the type says.
LEMMA WorldIsTyped ==
  ASSUME NEW w, ServiceWorld(w), IsRecord(w)
  PROVE  w \in [manager : ManagerType, proxy : [Proxy -> ProxyType], call : [Call -> CallType]]
BY DEF ServiceWorld, IsWorld, IsRecord

\* The invariant follows from that of the world and what a step leaves of the line.
LEMMA TypedByWorld ==
  ASSUME ServiceIInv, UNCHANGED interference,
         ServiceWorld(service'), IsRecord(service'),
         line' \in Seq(Own), methods' \in Seq(MechanismsQuery),
         heard' \in [Own -> Nat], named' \in [MechanismsQuery -> MechanismsQuery \cup {None}],
         ToSet(line') = {c \in Own : Underway(c)'},
         Len(methods') = Cardinality({q \in MechanismsQuery : Underway(q)'})
  PROVE  ServiceTypeOK'
<1>1. service' \in [manager : ManagerType, proxy : [Proxy -> ProxyType], call : [Call -> CallType]]
  BY WorldIsTyped
<1>2. \A c \in Own : service'.call[c].state # "failing"
  BY DEF ServiceWorld, ServiceCalls
<1>3. interference' \in Interferences
  BY DEF ServiceIInv, ServiceInv, ServiceTypeOK
<1>4. QED
  BY <1>1, <1>2, <1>3 DEF ServiceTypeOK

\* The set of methods for which an answer is awaited
Awaited == {q \in MechanismsQuery : Underway(q)}

LEMMA AwaitedIsFinite == IsFiniteSet(Awaited) /\ Cardinality(Awaited) \in Nat
<1>1. Awaited \in SUBSET MechanismsQuery
  BY DEF Awaited
<1>2. IsFiniteSet(Awaited)
  BY <1>1, ServiceAssumption, FS_Subset
<1>3. QED
  BY <1>2, FS_CardinalityType

\* The order of sending: what was sent went before what waits.
SentFirst ==
  \A a, b \in Own : service.call[a].state = "sent" /\ service.call[b].state = "queued" =>
    Before(line, a, b)

\* The bus, the daemon and the connection leave the line alone.
LEMMA ElsewhereStep ==
  ASSUME ServiceIInv, UNCHANGED interference, Elsewhere,
         ServiceWorld(service'), IsRecord(service'), Flows(service, service'),
         Broken(service) => Broken(service')
  PROVE  ServiceIInv'
<1>1. \A c \in Own : /\ Underway(c)' = Underway(c)
                     /\ (service'.call[c].state = "done") = (service.call[c].state = "done")
  BY DEF Flows, Underway
<1>2. MechanismsQuery \subseteq Own
  BY ServiceAssumption
<1>3. /\ {c \in Own : Underway(c)'} = {c \in Own : Underway(c)}
      /\ {q \in MechanismsQuery : Underway(q)'} = {q \in MechanismsQuery : Underway(q)}
  BY <1>1, <1>2
<1>4. ServiceTypeOK'
  BY <1>3, TypedByWorld DEF ServiceIInv, ServiceInv, ServiceTypeOK, Elsewhere
<1>5. HeardOnce' /\ MechanismsOfMethod'
  BY <1>1 DEF ServiceIInv, ServiceInv, HeardOnce, MechanismsOfMethod, Elsewhere
<1>6. InOrder => InOrder'
  <2> SUFFICES ASSUME InOrder
               PROVE  InOrder'
    OBVIOUS
  <2>1. SentFirst'
    <3>1. CASE \A c \in Own : service'.call[c].state = service.call[c].state
      BY <3>1 DEF InOrder, SentFirst, Elsewhere
    <3>2. CASE \A c \in Own : service'.call[c].state # "queued"
      BY <3>2 DEF SentFirst
    <3>3. QED
      BY <3>1, <3>2 DEF Flows
  <2>2. QED
    BY <1>3, <2>1 DEF InOrder, SentFirst, Elsewhere
<1>7. IsInjective(line')
  BY DEF ServiceIInv, Elsewhere
<1>8. QED
  BY <1>4, <1>5, <1>6, <1>7 DEF ServiceIInv, ServiceInv

\* A call of the application goes to the end of the line.
LEMMA CallGoesLast ==
  ASSUME ServiceIInv, NEW c \in Own, service.call[c].state = "none",
         service' = QueueCall(service, c), line' = Append(line, c)
  PROVE  /\ ServiceWorld(service') /\ IsRecord(service')
         /\ line' \in Seq(Own) /\ IsInjective(line')
         /\ ToSet(line') = {d \in Own : Underway(d)'}
         /\ Underway(c)' /\ ~Underway(c) /\ c \notin ToSet(line)
         /\ \A d \in Own \ {c} : Underway(d)' = Underway(d)
         /\ HeardOnce /\ UNCHANGED heard => HeardOnce'
         /\ Broken(service) => Broken(service')
         /\ SentFirst => SentFirst'
<1>1. /\ ServiceWorld(service) /\ line \in Seq(Own) /\ IsInjective(line)
      /\ ToSet(line) = {d \in Own : Underway(d)}
  BY DEF ServiceIInv, ServiceInv, ServiceTypeOK
<1>2. /\ ServiceWorld(service')
      /\ service'.call[c].state \in {"queued", "sent"}
      /\ \A d \in Own \ {c} :
           \/ service'.call[d].state = service.call[d].state
           \/ service.call[d].state = "queued" /\ service'.call[d].state = "sent"
      /\ \/ /\ service'.call[c].state = "queued"
            /\ \A d \in Own \ {c} : service'.call[d].state = service.call[d].state
         \/ \A d \in Own : service'.call[d].state # "queued"
      /\ Broken(service) => Broken(service')
  BY <1>1, QueueService
<1>3. IsRecord(service')
  BY QueueIsRecord
<1>4. Underway(c)' /\ ~Underway(c) /\ c \notin ToSet(line)
  BY <1>1, <1>2 DEF Underway
<1>5. \A d \in Own \ {c} : Underway(d)' = Underway(d)
  BY <1>2 DEF Underway
<1>6. line' \in Seq(Own) /\ IsInjective(line') /\ ToSet(line') = ToSet(line) \cup {c}
  BY <1>1, <1>4, AppendToSet, AppendProperties
<1>7. ToSet(line') = {d \in Own : Underway(d)'}
  BY <1>1, <1>4, <1>5, <1>6
<1>8. HeardOnce /\ UNCHANGED heard => HeardOnce'
  <2>1. \A d \in Own : (service'.call[d].state = "done") = (service.call[d].state = "done")
    BY <1>2
  <2>2. QED
    BY <2>1 DEF HeardOnce
<1>9. SentFirst => SentFirst'
  <2> SUFFICES ASSUME SentFirst, NEW a \in Own, NEW b \in Own,
                      service'.call[a].state = "sent", service'.call[b].state = "queued"
               PROVE  Before(line', a, b)
    BY DEF SentFirst
  <2>1. /\ service'.call[c].state = "queued"
        /\ \A d \in Own \ {c} : service'.call[d].state = service.call[d].state
    BY <1>2
  <2>2. a # c /\ service.call[a].state = "sent" /\ a \in ToSet(line)
    BY <1>1, <2>1 DEF Underway
  <2>3. b # c => Before(line, a, b)
    BY <2>1, <2>2 DEF SentFirst
  <2>4. QED
    BY <1>1, <2>2, <2>3, BeforeOfAppend
<1>10. QED
  BY <1>2, <1>3, <1>4, <1>5, <1>6, <1>7, <1>8, <1>9

\* queryMechanisms()
LEMMA QueryStep ==
  ASSUME ServiceIInv, UNCHANGED interference,
         NEW q \in MechanismsQuery, QueryMechanisms(q)
  PROVE  ServiceIInv'
<1>1. /\ q \in Own /\ service.call[q].state = "none"
      /\ service' = QueueCall(service, q) /\ line' = Append(line, q)
      /\ methods' = Append(methods, q) /\ UNCHANGED <<heard, named>>
  BY ServiceAssumption DEF QueryMechanisms
<1>2. /\ ServiceWorld(service') /\ IsRecord(service')
      /\ line' \in Seq(Own) /\ IsInjective(line')
      /\ ToSet(line') = {d \in Own : Underway(d)'}
      /\ Underway(q)' /\ ~Underway(q) /\ q \notin ToSet(line)
      /\ \A d \in Own \ {q} : Underway(d)' = Underway(d)
      /\ HeardOnce /\ UNCHANGED heard => HeardOnce'
      /\ Broken(service) => Broken(service')
      /\ SentFirst => SentFirst'
  BY <1>1, CallGoesLast
<1>3. /\ methods \in Seq(MechanismsQuery) /\ Len(methods) = Cardinality(Awaited)
      /\ line \in Seq(Own) /\ ToSet(line) = {d \in Own : Underway(d)}
      /\ heard \in [Own -> Nat] /\ named \in [MechanismsQuery -> MechanismsQuery \cup {None}]
      /\ HeardOnce /\ MechanismsOfMethod
  BY DEF ServiceIInv, ServiceInv, ServiceTypeOK, Awaited
<1>4. Awaited' = Awaited \cup {q} /\ q \notin Awaited
  BY <1>2, ServiceAssumption DEF Awaited
<1>5. Cardinality(Awaited') = Cardinality(Awaited) + 1
  BY <1>4, AwaitedIsFinite, FS_AddElement
<1>6. methods' \in Seq(MechanismsQuery) /\ Len(methods') = Cardinality(Awaited')
  BY <1>1, <1>3, <1>5, AppendProperties, LenProperties
<1>7. ServiceTypeOK'
  BY <1>1, <1>2, <1>3, <1>6, TypedByWorld DEF Awaited
<1>8. HeardOnce' /\ MechanismsOfMethod'
  BY <1>1, <1>2, <1>3 DEF MechanismsOfMethod
<1>9. InOrder => InOrder'
  <2> SUFFICES ASSUME InOrder
               PROVE  InOrder'
    OBVIOUS
  <2>1. IsInjective(methods) /\ ToSet(methods) = Awaited
    BY DEF InOrder, Awaited
  <2>2. IsInjective(methods') /\ ToSet(methods') = Awaited'
    BY <1>1, <1>3, <1>4, <2>1, AppendToSet
  <2>3. ASSUME NEW a \in MechanismsQuery, NEW b \in MechanismsQuery, Before(methods', a, b)
        PROVE  Before(line', a, b)
    <3>1. Before(methods, a, b) \/ (a \in ToSet(methods) /\ b = q)
      BY <1>1, <1>3, <2>3, BeforeOfAppend
    <3>2. Before(line, a, b) \/ (a \in ToSet(line) /\ b = q)
      BY <1>3, <2>1, <3>1, ServiceAssumption DEF InOrder, Awaited
    <3>3. QED
      BY <1>1, <1>3, <3>2, BeforeOfAppend
  <2>4. SentFirst'
    BY <1>2 DEF InOrder, SentFirst
  <2>5. QED
    BY <2>2, <2>3, <2>4 DEF InOrder, SentFirst, Awaited
<1>10. QED
  BY <1>2, <1>7, <1>8, <1>9 DEF ServiceIInv, ServiceInv

\* sendRequest()
LEMMA RequestStep ==
  ASSUME ServiceIInv, UNCHANGED interference,
         NEW c \in Own \ MechanismsQuery, SendRequest(c)
  PROVE  ServiceIInv'
<1>1. /\ c \in Own /\ c \notin MechanismsQuery /\ service.call[c].state = "none"
      /\ service' = QueueCall(service, c) /\ line' = Append(line, c)
      /\ UNCHANGED <<methods, heard, named>>
  BY DEF SendRequest
<1>2. /\ ServiceWorld(service') /\ IsRecord(service')
      /\ line' \in Seq(Own) /\ IsInjective(line')
      /\ ToSet(line') = {d \in Own : Underway(d)'}
      /\ \A d \in Own \ {c} : Underway(d)' = Underway(d)
      /\ HeardOnce /\ UNCHANGED heard => HeardOnce'
      /\ Broken(service) => Broken(service')
      /\ SentFirst => SentFirst'
  BY <1>1, CallGoesLast
<1>3. /\ methods \in Seq(MechanismsQuery) /\ Len(methods) = Cardinality(Awaited)
      /\ line \in Seq(Own)
      /\ heard \in [Own -> Nat] /\ named \in [MechanismsQuery -> MechanismsQuery \cup {None}]
      /\ HeardOnce /\ MechanismsOfMethod
  BY DEF ServiceIInv, ServiceInv, ServiceTypeOK, Awaited
<1>4. Awaited' = Awaited
  BY <1>1, <1>2, ServiceAssumption DEF Awaited
<1>5. ServiceTypeOK'
  BY <1>1, <1>2, <1>3, <1>4, TypedByWorld DEF Awaited
<1>6. HeardOnce' /\ MechanismsOfMethod'
  BY <1>1, <1>2, <1>3 DEF MechanismsOfMethod
<1>7. InOrder => InOrder'
  <2> SUFFICES ASSUME InOrder
               PROVE  InOrder'
    OBVIOUS
  <2>1. IsInjective(methods') /\ ToSet(methods') = Awaited'
    BY <1>1, <1>4 DEF InOrder, Awaited
  <2>2. \A a, b \in MechanismsQuery : Before(methods', a, b) => Before(line', a, b)
    BY <1>1, <1>3, BeforeOfAppend DEF InOrder
  <2>3. SentFirst'
    BY <1>2 DEF InOrder, SentFirst
  <2>4. QED
    BY <2>1, <2>2, <2>3 DEF InOrder, SentFirst, Awaited
<1>8. QED
  BY <1>2, <1>5, <1>6, <1>7 DEF ServiceIInv, ServiceInv

\* A call leaves the line: w is the service when its end has been heard of.
LEMMA CallEnds ==
  ASSUME ServiceIInv, NEW c \in Own, service.call[c].state = "sent",
         NEW w, ServiceWorld(w),
         \A d \in Own : w.call[d].state = service.call[d].state,
         Ended(w, c)
  PROVE  /\ ServiceWorld(service') /\ IsRecord(service')
         /\ line' \in Seq(Own) /\ IsInjective(line')
         /\ ToSet(line') = {d \in Own : Underway(d)'}
         /\ heard' \in [Own -> Nat] /\ HeardOnce'
         /\ Underway(c) /\ ~Underway(c)'
         /\ \A d \in Own \ {c} : Underway(d)' = Underway(d)
         /\ \A a, b : Before(line', a, b) <=> Before(line, a, b) /\ a # c /\ b # c
         /\ Broken(w) => Broken(service')
         /\ SentFirst => SentFirst'
<1>1. /\ line \in Seq(Own) /\ IsInjective(line) /\ ToSet(line) = {d \in Own : Underway(d)}
      /\ heard \in [Own -> Nat] /\ HeardOnce
  BY DEF ServiceIInv, ServiceInv, ServiceTypeOK
<1>2. /\ service' = Finished(w, c) /\ line' = RemoveFirst(line, c)
      /\ heard' = [heard EXCEPT ![c] = @ + 1]
  BY DEF Ended
<1>3. /\ ServiceWorld(service') /\ service'.call[c].state = "done"
      /\ \A d \in Own \ {c} : service'.call[d] = w.call[d]
      /\ Broken(w) => Broken(service')
  BY <1>2, FinishedService
<1>4. IsRecord(service')
  BY <1>2, StepIsRecord
<1>5. \A d \in Own \ {c} : service'.call[d].state = service.call[d].state
  BY <1>3
<1>6. /\ Underway(c) /\ ~Underway(c)' /\ c \in ToSet(line)
      /\ \A d \in Own \ {c} : Underway(d)' = Underway(d)
  BY <1>1, <1>3, <1>5 DEF Underway
<1>7. /\ line' \in Seq(Own) /\ ToSet(line') = ToSet(line) \ {c} /\ IsInjective(line')
      /\ \A a, b : Before(line', a, b) <=> Before(line, a, b) /\ a # c /\ b # c
  BY <1>1, <1>2, <1>6, BeforeOfRemoveFirst
<1>8. ToSet(line') = {d \in Own : Underway(d)'}
  BY <1>1, <1>6, <1>7
<1>9. heard' \in [Own -> Nat] /\ HeardOnce'
  <2>1. /\ heard' \in [Own -> Nat] /\ heard'[c] = heard[c] + 1
        /\ \A d \in Own \ {c} : heard'[d] = heard[d]
    BY <1>1, <1>2
  <2>2. heard[c] = 0
    BY <1>1 DEF HeardOnce
  <2>3. heard'[c] = 1
    BY <2>1, <2>2
  <2>4. \A d \in Own \ {c} : heard'[d] = IF service'.call[d].state = "done" THEN 1 ELSE 0
    BY <1>1, <1>5, <2>1 DEF HeardOnce
  <2>5. HeardOnce'
    BY <1>3, <2>3, <2>4 DEF HeardOnce
  <2>6. QED
    BY <2>1, <2>5
<1>10. SentFirst => SentFirst'
  <2> SUFFICES ASSUME SentFirst, NEW a \in Own, NEW b \in Own,
                      service'.call[a].state = "sent", service'.call[b].state = "queued"
               PROVE  Before(line', a, b)
    BY DEF SentFirst
  <2>1. /\ a # c /\ b # c
        /\ service.call[a].state = "sent" /\ service.call[b].state = "queued"
    BY <1>3, <1>5
  <2>2. QED
    BY <1>7, <2>1 DEF SentFirst
<1>11. QED
  BY <1>3, <1>4, <1>6, <1>7, <1>8, <1>9, <1>10

\* What an answer that comes in turn finds at the head of the methods
LEMMA HeadIsAnswered ==
  ASSUME ServiceIInv, InOrder, NEW q \in MechanismsQuery, NEW answer \in Answer,
         service.call[q].state = "sent", InTurn(q, answer), answer # "Disconnected"
  PROVE  methods # <<>> /\ Head(methods) = q
<1>1. /\ line \in Seq(Own) /\ IsInjective(line) /\ ToSet(line) = {d \in Own : Underway(d)}
      /\ methods \in Seq(MechanismsQuery)
      /\ IsInjective(methods) /\ ToSet(methods) = Awaited
  BY DEF ServiceIInv, ServiceInv, ServiceTypeOK, InOrder, Awaited
<1>2. q \in ToSet(methods) /\ q \in Own
  BY <1>1, ServiceAssumption DEF Awaited, Underway
<1>3. methods # <<>>
  BY <1>2 DEF ToSet
<1>4. SUFFICES ASSUME Head(methods) # q
               PROVE  FALSE
  BY <1>3
<1> DEFINE a == Head(methods)
<1>5. a \in ToSet(methods) /\ Before(methods, a, q)
  BY <1>1, <1>2, <1>3, <1>4, BeforeOfTail
<1> HIDE DEF a
<1>6. a \in MechanismsQuery /\ a \in Own /\ Underway(a) /\ Before(line, a, q)
  BY <1>1, <1>5, ServiceAssumption DEF InOrder, Awaited
<1>7. service.call[a].state = "sent"
  <2>1. CASE service.call[a].state = "queued"
    <3>1. Before(line, q, a)
      BY <1>2, <1>6, <2>1 DEF InOrder
    <3>2. QED
      BY <1>1, <1>6, <3>1, BeforeIsStrict
  <2>2. QED
    BY <1>6, <2>1 DEF Underway
<1>8. PICK i \in DOMAIN line : line[i] = a
  BY <1>1, <1>6 DEF ToSet
<1>9. \E j \in 1 .. i : line[j] = q
  BY <1>7, <1>8 DEF InTurn
<1>10. QED
  BY <1>1, <1>6, <1>8, <1>9, BeforeIsStrict

\* The outcome of a call is reported, and its method leaves the queue.
LEMMA ReportedStep ==
  ASSUME ServiceIInv, UNCHANGED interference, NEW c \in Own, NEW answer \in Answer,
         service.call[c].state = "sent", answer \in service.call[c].answers,
         InTurn(c, answer),
         NEW w, ServiceWorld(w),
         \A d \in Own : w.call[d].state = service.call[d].state,
         answer = "Disconnected" => Broken(w),
         Ended(w, c),
         methods' = IF c \in MechanismsQuery /\ methods # <<>> THEN Tail(methods) ELSE methods,
         named' = IF c \in MechanismsQuery /\ answer = "success"
                    THEN [named EXCEPT ![c] = IF methods # <<>> THEN Head(methods) ELSE None]
                    ELSE named
  PROVE  ServiceIInv'
<1>1. /\ ServiceWorld(service') /\ IsRecord(service')
      /\ line' \in Seq(Own) /\ IsInjective(line')
      /\ ToSet(line') = {d \in Own : Underway(d)'}
      /\ heard' \in [Own -> Nat] /\ HeardOnce'
      /\ Underway(c) /\ ~Underway(c)'
      /\ \A d \in Own \ {c} : Underway(d)' = Underway(d)
      /\ \A a, b : Before(line', a, b) <=> Before(line, a, b) /\ a # c /\ b # c
      /\ Broken(w) => Broken(service')
      /\ SentFirst => SentFirst'
  BY CallEnds
<1>2. /\ methods \in Seq(MechanismsQuery) /\ Len(methods) = Cardinality(Awaited)
      /\ named \in [MechanismsQuery -> MechanismsQuery \cup {None}] /\ MechanismsOfMethod
      /\ ServiceWorld(service) /\ (InOrder \/ Broken(service))
  BY DEF ServiceIInv, ServiceInv, ServiceTypeOK, Awaited
<1>3. answer # "Disconnected" => InOrder
  BY <1>2 DEF Broken
<1>4. answer # "Disconnected" /\ c \in MechanismsQuery => methods # <<>> /\ Head(methods) = c
  BY <1>3, HeadIsAnswered
<1>5. /\ methods' \in Seq(MechanismsQuery) /\ Len(methods') = Cardinality(Awaited')
      /\ Awaited' = Awaited \ {c}
  <2>1. Awaited' = Awaited \ {c}
    BY <1>1, ServiceAssumption DEF Awaited
  <2>2. CASE c \in MechanismsQuery
    <3>1. c \in Awaited
      BY <1>1, <2>2 DEF Awaited
    <3>2. Cardinality(Awaited') = Cardinality(Awaited) - 1
      BY <2>1, <3>1, AwaitedIsFinite, FS_RemoveElement
    <3>3. Cardinality(Awaited) # 0
      BY <3>1, AwaitedIsFinite, FS_EmptySet
    <3>4. methods # <<>>
      BY <1>2, <3>3, EmptySeq
    <3>5. QED
      BY <1>2, <2>1, <2>2, <3>2, <3>4, HeadTailProperties
  <2>3. CASE c \notin MechanismsQuery
    <3>1. Awaited' = Awaited
      BY <2>1, <2>3 DEF Awaited
    <3>2. QED
      BY <1>2, <2>1, <2>3, <3>1
  <2>4. QED
    BY <2>2, <2>3
<1>6. named' \in [MechanismsQuery -> MechanismsQuery \cup {None}] /\ MechanismsOfMethod'
  <2>1. CASE c \in MechanismsQuery /\ answer = "success"
    <3>1. named' = [named EXCEPT ![c] = c]
      BY <1>4, <2>1
    <3>2. QED
      BY <1>2, <2>1, <3>1 DEF MechanismsOfMethod
  <2>2. CASE ~(c \in MechanismsQuery /\ answer = "success")
    BY <1>2, <2>2 DEF MechanismsOfMethod
  <2>3. QED
    BY <2>1, <2>2
<1>7. ServiceTypeOK'
  BY <1>1, <1>5, <1>6, TypedByWorld DEF Awaited
<1>8. ASSUME answer # "Disconnected"
      PROVE  InOrder'
  <2>1. InOrder /\ IsInjective(methods) /\ ToSet(methods) = Awaited
    BY <1>3, <1>8 DEF InOrder, Awaited
  <2>2. /\ IsInjective(methods') /\ ToSet(methods') = Awaited'
        /\ \A a, b : Before(methods', a, b) =>
             Before(methods, a, b) /\ a # c /\ b # c
    <3>1. CASE c \in MechanismsQuery
      <4>1. methods' = Tail(methods) /\ methods # <<>> /\ Head(methods) = c
        BY <1>4, <1>8, <3>1
      <4>2. /\ IsInjective(methods') /\ ToSet(methods') = Awaited'
            /\ methods' \in Seq(MechanismsQuery)
            /\ \A a, b : Before(methods', a, b) => Before(methods, a, b)
        BY <1>2, <1>5, <2>1, <4>1, BeforeOfTail
      <4>3. \A a, b : Before(methods', a, b) => a \in ToSet(methods') /\ b \in ToSet(methods')
        BY DEF Before, ToSet
      <4>4. QED
        BY <1>5, <4>2, <4>3
    <3>2. CASE c \notin MechanismsQuery
      <4>1. methods' = methods /\ Awaited' = Awaited
        BY <1>5, <3>2 DEF Awaited
      <4>2. \A a, b : Before(methods, a, b) => a \in ToSet(methods) /\ b \in ToSet(methods)
        BY DEF Before, ToSet
      <4>3. QED
        BY <2>1, <3>2, <4>1, <4>2 DEF Awaited
    <3>3. QED
      BY <3>1, <3>2
  <2>3. \A a, b \in MechanismsQuery : Before(methods', a, b) => Before(line', a, b)
    BY <1>1, <2>1, <2>2 DEF InOrder
  <2>4. SentFirst'
    BY <1>1, <2>1 DEF InOrder, SentFirst
  <2>5. QED
    BY <2>2, <2>3, <2>4 DEF InOrder, SentFirst, Awaited
<1>9. InOrder' \/ Broken(service')
  BY <1>1, <1>8
<1>10. QED
  BY <1>1, <1>6, <1>7, <1>9 DEF ServiceIInv, ServiceInv

\* A call that is to be tried again goes to the end of the line.
LEMMA RequeueStep ==
  ASSUME ServiceIInv, UNCHANGED interference, NEW c \in Own, NEW answer \in Answer,
         service.call[c].state = "sent", answer \in service.call[c].answers,
         Retried(service, c, answer), Requeue(Heard(answer), c)
  PROVE  ServiceIInv'
<1>1. /\ line \in Seq(Own) /\ IsInjective(line) /\ ToSet(line) = {d \in Own : Underway(d)}
      /\ methods \in Seq(MechanismsQuery) /\ Len(methods) = Cardinality(Awaited)
      /\ heard \in [Own -> Nat] /\ named \in [MechanismsQuery -> MechanismsQuery \cup {None}]
      /\ HeardOnce /\ MechanismsOfMethod /\ ServiceWorld(service)
  BY DEF ServiceIInv, ServiceInv, ServiceTypeOK, Awaited
<1> DEFINE w == Heard(answer)
<1>2. /\ service' = Enqueue(w, c) /\ line' = Append(RemoveFirst(line, c), c)
      /\ UNCHANGED <<methods, heard, named>>
  BY DEF Requeue
<1>3. answer = "Disconnected" /\ service.proxy[Main].path = "none"
  BY <1>1 DEF Retried, ServiceWorld, ServiceCalls
<1>4. /\ ServiceWorld(w) /\ w.proxy = service.proxy /\ Broken(w)
      /\ \A d \in Own : w.call[d].state = service.call[d].state
  BY <1>1, <1>3, HeardEffect
<1> HIDE DEF w
<1>5. w.proxy[Main].status = "Incomplete"
  BY <1>3, <1>4 DEF ServiceWorld, ServiceProxy
<1>6. /\ ServiceWorld(service') /\ Broken(service')
      /\ service'.call[c].state \in {"queued", "sent"}
      /\ \A d \in Own \ {c} :
           \/ service'.call[d].state = service.call[d].state
           \/ service.call[d].state = "queued" /\ service'.call[d].state = "sent"
  BY <1>2, <1>4, <1>5, EnqueueService
<1>7. IsRecord(service')
  BY <1>2, QueueIsRecord
<1>8. \A d \in Own : /\ Underway(d)' = Underway(d)
                     /\ (service'.call[d].state = "done") = (service.call[d].state = "done")
  BY <1>6 DEF Underway
<1>9. /\ line' \in Seq(Own) /\ IsInjective(line') /\ ToSet(line') = ToSet(line)
  <2> DEFINE s == RemoveFirst(line, c)
  <2>1. c \in ToSet(line)
    BY <1>1 DEF Underway
  <2>2. s \in Seq(Own) /\ ToSet(s) = ToSet(line) \ {c} /\ IsInjective(s)
    BY <1>1, <2>1, BeforeOfRemoveFirst
  <2> HIDE DEF s
  <2>3. /\ Append(s, c) \in Seq(Own) /\ IsInjective(Append(s, c))
        /\ ToSet(Append(s, c)) = ToSet(s) \cup {c}
    BY <2>2, AppendToSet, AppendProperties
  <2>4. QED
    BY <1>2, <2>1, <2>2, <2>3 DEF s
<1>10. /\ ToSet(line') = {d \in Own : Underway(d)'}
       /\ Awaited' = Awaited
  BY <1>1, <1>8, <1>9, ServiceAssumption DEF Awaited
<1>11. ServiceTypeOK'
  BY <1>1, <1>2, <1>6, <1>7, <1>9, <1>10, TypedByWorld DEF Awaited
<1>12. HeardOnce' /\ MechanismsOfMethod'
  BY <1>1, <1>2, <1>8 DEF HeardOnce, MechanismsOfMethod
<1>13. QED
  BY <1>6, <1>9, <1>11, <1>12 DEF ServiceIInv, ServiceInv

\* An answer to a call of the application
LEMMA ServiceReplyStep ==
  ASSUME ServiceIInv, UNCHANGED interference, NEW c \in Own, NEW answer \in Answer,
         ServiceReply(c, answer)
  PROVE  ServiceIInv'
<1> DEFINE w == Heard(answer)
<1>1. /\ service.call[c].state = "sent" /\ answer \in service.call[c].answers
      /\ InTurn(c, answer) /\ ServiceWorld(service)
  BY DEF ServiceReply, MayAnswer, ServiceIInv
<1>2. /\ ServiceWorld(w)
      /\ \A d \in Own : w.call[d].state = service.call[d].state
      /\ answer = "Disconnected" => Broken(w)
  BY <1>1, HeardEffect
<1> HIDE DEF w
<1>3. CASE Retried(service, c, answer) /\ Requeue(Heard(answer), c)
  BY <1>1, <1>3, RequeueStep
<1>4. CASE answer # "success" /\ Failed(w, c)
  <2>1. /\ Ended(w, c) /\ named' = named
        /\ methods' = IF c \in MechanismsQuery /\ methods # <<>> THEN Tail(methods) ELSE methods
    BY <1>4 DEF Failed, MechanismsError
  <2>2. named' = IF c \in MechanismsQuery /\ answer = "success"
                   THEN [named EXCEPT ![c] = IF methods # <<>> THEN Head(methods) ELSE None]
                   ELSE named
    BY <1>4, <2>1
  <2>3. QED
    BY <1>1, <1>2, <2>1, <2>2, ReportedStep
<1>5. CASE answer = "success" /\ ServiceSucceeded(service, c)
  <2>1. /\ Ended(service, c)
        /\ methods' = IF c \in MechanismsQuery /\ methods # <<>> THEN Tail(methods) ELSE methods
        /\ named' = IF c \in MechanismsQuery /\ answer = "success"
                      THEN [named EXCEPT ![c] = IF methods # <<>> THEN Head(methods) ELSE None]
                      ELSE named
    BY <1>5 DEF ServiceSucceeded, MechanismsReply
  <2>2. answer # "Disconnected"
    BY <1>5
  <2>3. QED
    BY <1>1, <2>1, <2>2, ReportedStep
<1>6. QED
  BY <1>3, <1>4, <1>5 DEF ServiceReply, w

LEMMA ServiceStep == ServiceIInv /\ [ServiceNext]_serviceVars => ServiceIInv'
<1> SUFFICES ASSUME ServiceIInv, [ServiceNext]_serviceVars
             PROVE  ServiceIInv'
  OBVIOUS
<1>1. CASE UNCHANGED serviceVars
  BY <1>1 DEF serviceVars, ServiceIInv, ServiceInv, ServiceTypeOK, HeardOnce, MechanismsOfMethod,
              InOrder, Underway
<1>2. CASE ServiceNext
  <2>1. UNCHANGED interference /\ ServiceWorld(service)
    BY <1>2 DEF ServiceNext, ServiceIInv
  <2>2. ASSUME NEW q \in MechanismsQuery, QueryMechanisms(q)
        PROVE  ServiceIInv'
    BY <2>1, <2>2, QueryStep
  <2>3. ASSUME NEW c \in Own \ MechanismsQuery, SendRequest(c)
        PROVE  ServiceIInv'
    BY <2>1, <2>3, RequestStep
  <2>4. ASSUME NEW c \in Own, NEW answer \in Answer, ServiceReply(c, answer)
        PROVE  ServiceIInv'
    BY <2>1, <2>4, ServiceReplyStep
  <2>5. CASE ServiceEnds
    <3>1. service' = DaemonEnds(service) /\ MayEnd(service) /\ Elsewhere
      BY <2>5 DEF ServiceEnds
    <3>2. /\ ServiceWorld(service') /\ (Broken(service) => Broken(service'))
          /\ \A c \in Own : service'.call[c].state = service.call[c].state
      BY <2>1, <3>1, EndsService
    <3>3. IsRecord(service') /\ Flows(service, service')
      BY <3>1, <3>2, StepIsRecord DEF Flows
    <3>4. QED
      BY <2>1, <3>1, <3>2, <3>3, ElsewhereStep
  <2>6. CASE ServiceActivationDone
    <3>1. /\ service' = OnActivationDone(service) /\ Elsewhere
          /\ service.manager.activation \in {"done", "failed"}
      BY <2>6 DEF ServiceActivationDone
    <3>2. /\ ServiceWorld(service') /\ Flows(service, service')
          /\ Broken(service) => Broken(service')
      BY <2>1, <3>1, ActivationDoneService
    <3>3. IsRecord(service')
      BY <3>1, StepIsRecord
    <3>4. QED
      BY <2>1, <3>1, <3>2, <3>3, ElsewhereStep
  <2>7. CASE ServiceDisconnected
    <3>1. service' = OnDisconnected(service) /\ service.manager.lost /\ Elsewhere
      BY <2>7 DEF ServiceDisconnected
    <3>2. /\ ServiceWorld(service') /\ Broken(service')
          /\ \A c \in Own : service'.call[c].state = service.call[c].state
      BY <2>1, <3>1, DisconnectedService
    <3>3. IsRecord(service') /\ Flows(service, service')
      BY <3>1, <3>2, StepIsRecord DEF Flows
    <3>4. QED
      BY <2>1, <3>1, <3>2, <3>3, ElsewhereStep
  <2>8. ASSUME NEW ok \in BOOLEAN, ServiceActivated(ok)
        PROVE  ServiceIInv'
    <3>1. service' = Activated(service, ok) /\ MayActivate(service, ok) /\ Elsewhere
      BY <2>8 DEF ServiceActivated
    <3>2. /\ ServiceWorld(service') /\ (Broken(service) => Broken(service'))
          /\ service'.call = service.call
      BY <2>1, <3>1, ActivatedService
    <3>3. IsRecord(service') /\ Flows(service, service')
      BY <3>1, <3>2, StepIsRecord DEF Flows
    <3>4. QED
      BY <2>1, <3>1, <3>2, <3>3, ElsewhereStep
  <2>9. QED
    BY <1>2, <2>2, <2>3, <2>4, <2>5, <2>6, <2>7, <2>8 DEF ServiceNext
<1>3. QED
  BY <1>1, <1>2

LEMMA ServiceInitially == ServiceInit => ServiceIInv
<1> SUFFICES ASSUME ServiceInit
             PROVE  ServiceIInv
  OBVIOUS
<1>1. /\ interference \in Interferences /\ line = <<>> /\ methods = <<>>
      /\ heard = [c \in Own |-> 0] /\ named = [q \in MechanismsQuery |-> None]
  BY DEF ServiceInit
<1>2. PICK peerBus \in BOOLEAN, daemon \in BOOLEAN, ends \in 0 .. MaxEnds :
        service = Constructed(peerBus, daemon, ends)
  BY DEF ServiceInit
<1>3. ServiceWorld(service) /\ \A c \in Own : service.call[c].state = "none"
  BY <1>2, ServiceStarts
<1>4. IsRecord(service)
  BY <1>2, EmitIsRecord DEF Constructed
<1>5. /\ line \in Seq(Own) /\ methods \in Seq(MechanismsQuery)
      /\ ToSet(line) = {} /\ ToSet(methods) = {} /\ Len(methods) = 0
      /\ IsInjective(line) /\ IsInjective(methods)
  BY <1>1 DEF ToSet, IsInjective
<1>6. \A c \in Own : ~Underway(c)
  BY <1>3 DEF Underway
<1>7. Awaited = {} /\ Cardinality(Awaited) = 0
  BY <1>6, ServiceAssumption, FS_EmptySet DEF Awaited
<1>8. ServiceTypeOK
  <2>1. service \in [manager : ManagerType, proxy : [Proxy -> ProxyType], call : [Call -> CallType]]
    BY <1>3, <1>4, WorldIsTyped
  <2>2. ToSet(line) = {c \in Own : Underway(c)}
    BY <1>5, <1>6
  <2>3. QED
    BY <1>1, <1>3, <1>5, <1>7, <2>1, <2>2 DEF ServiceTypeOK, Awaited
<1>9. HeardOnce /\ MechanismsOfMethod
  BY <1>1, <1>3 DEF HeardOnce, MechanismsOfMethod
<1>10. InOrder
  <2>1. \A a, b : ~Before(methods, a, b)
    BY <1>1 DEF Before
  <2>2. QED
    BY <1>3, <1>5, <1>7, <2>1 DEF InOrder, Awaited
<1>11. QED
  BY <1>3, <1>5, <1>8, <1>9, <1>10 DEF ServiceIInv, ServiceInv

\* Every call of the service object is reported once, and the mechanisms that the application
\* is told are those of the method it asked for, whatever ends and in whatever order the calls
\* are answered (ClientService, queryMechanismsReply() and queryMechanismsError()).
THEOREM ServiceCorrect == ServiceSpec => []ServiceInv
<1>1. ServiceIInv => ServiceInv
  BY DEF ServiceIInv
<1>2. QED
  BY <1>1, ServiceInitially, ServiceStep, PTL DEF ServiceSpec
===============================================================================
