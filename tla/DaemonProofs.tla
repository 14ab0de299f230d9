----------------------------- MODULE DaemonProofs -----------------------------
(***************************************************************************)
(* What is proved of AuthSessions, for any number of clients, cores,       *)
(* sessions and identities: types; the registries; who is given a session, *)
(* and that it is there; that no request outlives its session; and that    *)
(* what starts is permitted.                                               *)
(*                                                                         *)
(* What is proved of Backup, for any list of files, by whatever name they  *)
(* are listed, and any disorder: a backup that is reported done is a copy, *)
(* a restore is all or nothing and loses no file even if the daemon is     *)
(* killed in the midst of it, and the credentials system is open           *)
(* afterwards.                                                             *)
(***************************************************************************)
EXTENDS AuthSessions, Backup, SeqLemmas

-------------------------------------------------------------------------------
(* Types.  Handlers that open sessions and dispose of cores work on a record of the
   state, a world. *)

Worlds == [core : [Core -> CoreMember], stored : [Key -> Core \cup {Null}],
           nonStored : SUBSET Core, session : [Session -> SessionMember],
           opened : Session \cup {Null}]

Fits(w) ==
  \A k \in Core : Len(w.core[k].queue) <= MaxQueue

AtWork(w) ==
  \A k \in Core : w.core[k].active => w.core[k].queue # <<>>

Parented(w) ==
  \A s \in Session : w.session[s].status = "none" <=> w.session[s].core = Null

Sound(w) == w \in Worlds /\ Fits(w) /\ AtWork(w) /\ Parented(w)

LEMMA WorldFields ==
  /\ World.core = core /\ World.stored = stored /\ World.nonStored = nonStored
  /\ World.session = session /\ World.opened = Null
BY DEF World

LEMMA WorldIsSound ==
  ASSUME TypeOK
  PROVE  Sound(World)
<1>1. World \in Worlds
  BY DEF TypeOK, World, Worlds
<1>2. Fits(World)
  BY WorldFields DEF TypeOK, Fits
<1>3. AtWork(World)
  BY WorldFields DEF TypeOK, AtWork
<1>4. Parented(World)
  BY WorldFields DEF TypeOK, Parented
<1> QED
  BY <1>1, <1>2, <1>3, <1>4 DEF Sound

LEMMA NoCoreType == NoCore \in CoreMember /\ NoSession \in SessionMember
<1>1. (CHOOSE m \in Method : TRUE) \in Method
  BY SessionsAssumption
<1>2. <<>> \in Seq(Request)
  OBVIOUS
<1> QED
  BY <1>1, <1>2 DEF NoCore, NoSession, CoreMember, SessionMember

(* The fields of the world after destroyUnused() *)
LEMMA DestroyUnusedFields ==
  ASSUME NEW w \in Worlds
  PROVE  LET v == DestroyUnused(w)
         IN /\ v.core = [k \in Core |->
                 IF Unused(w, k) THEN Destroyed(w.core[k]) ELSE w.core[k]]
            /\ v.stored = [key \in Key |->
                 IF \E k \in Core : Gone(w, k) /\ key = <<w.core[k].id, w.core[k].method>>
                   THEN Null ELSE w.stored[key]]
            /\ v.nonStored = {k \in w.nonStored : ~Gone(w, k)}
            /\ v.session = [s \in Session |->
                 IF w.session[s].core # Null /\ Gone(w, w.session[s].core)
                   THEN NoSession ELSE w.session[s]]
            /\ v.opened = w.opened
            /\ v \in Worlds
<1> DEFINE u == Deregistered(w)
           v == DestroyUnused(w)
<1>1. /\ u.core = w.core /\ u.session = w.session /\ u.opened = w.opened
      /\ u.stored = [key \in Key |->
           IF \E k \in Core : Gone(w, k) /\ key = <<w.core[k].id, w.core[k].method>>
             THEN Null ELSE w.stored[key]]
      /\ u.nonStored = {k \in w.nonStored : ~Gone(w, k)}
      /\ u \in Worlds
  BY DEF Deregistered, Worlds
<1> HIDE DEF u
<1>2. /\ v.stored = u.stored /\ v.nonStored = u.nonStored /\ v.opened = u.opened
      /\ v.core = [k \in Core |-> IF Unused(w, k) THEN Destroyed(u.core[k]) ELSE u.core[k]]
      /\ v.session = [s \in Session |->
           IF u.session[s].core # Null /\ Gone(w, u.session[s].core)
             THEN NoSession ELSE u.session[s]]
  BY <1>1 DEF DestroyUnused, u, Worlds
<1>3. v \in Worlds
  <2>1. \A r \in CoreMember : Destroyed(r) \in CoreMember
    BY DEF Destroyed, InUse, CoreMember
  <2>2. [k \in Core |-> IF Unused(w, k) THEN Destroyed(u.core[k]) ELSE u.core[k]]
          \in [Core -> CoreMember]
    BY <1>1, <2>1 DEF Worlds
  <2>3. [s \in Session |->
           IF u.session[s].core # Null /\ Gone(w, u.session[s].core)
             THEN NoSession ELSE u.session[s]] \in [Session -> SessionMember]
    BY <1>1, NoCoreType DEF Worlds
  <2> QED
    BY <1>1, <1>2, <2>2, <2>3 DEF DestroyUnused, u, Worlds
<1> QED
  BY <1>1, <1>2, <1>3

LEMMA DestroyUnusedCore ==
  ASSUME NEW w \in Worlds, NEW k \in Core
  PROVE  DestroyUnused(w).core[k] =
           IF Unused(w, k) THEN Destroyed(w.core[k]) ELSE w.core[k]
<1>1. DestroyUnused(w).core =
        [l \in Core |-> IF Unused(w, l) THEN Destroyed(w.core[l]) ELSE w.core[l]]
  BY DestroyUnusedFields
<1> QED
  BY <1>1

LEMMA DestroyUnusedSound ==
  ASSUME NEW w, Sound(w)
  PROVE  Sound(DestroyUnused(w))
<1> DEFINE v == DestroyUnused(w)
<1>1. w \in Worlds
  BY DEF Sound
<1>2. v \in Worlds
  BY <1>1, DestroyUnusedFields
<1>3. \A k \in Core : v.core[k].queue = w.core[k].queue /\ v.core[k].active = w.core[k].active
  <2>1. \A r \in CoreMember : Destroyed(r).queue = r.queue /\ Destroyed(r).active = r.active
    BY DEF Destroyed, InUse, CoreMember
  <2>2. \A k \in Core : v.core[k] = IF Unused(w, k) THEN Destroyed(w.core[k]) ELSE w.core[k]
    BY <1>1, DestroyUnusedCore
  <2>3. \A k \in Core : w.core[k] \in CoreMember
    BY <1>1 DEF Worlds
  <2> HIDE DEF v
  <2> QED
    BY <2>1, <2>2, <2>3
<1>4. \A s \in Session : v.session[s] = w.session[s] \/ v.session[s] = NoSession
  BY <1>1, DestroyUnusedFields
<1> HIDE DEF v
<1>5. Fits(v) /\ AtWork(v)
  BY <1>3 DEF Sound, Fits, AtWork
<1>6. Parented(v)
  BY <1>4 DEF Sound, Parented, NoSession
<1> QED
  BY <1>2, <1>5, <1>6 DEF Sound, v

(* A world in which a session is opened: the fields *)
LEMMA WithSessionFields ==
  ASSUME NEW w \in Worlds, NEW k \in Core, NEW s \in Session, NEW c \in Client
  PROVE  LET v == WithSession(w, k, s, c)
         IN /\ v.core = w.core /\ v.stored = w.stored /\ v.nonStored = w.nonStored
            /\ v.session = [w.session EXCEPT ![s] =
                              [status |-> "live", core |-> k, owner |-> c]]
            /\ v.opened = s
            /\ v \in Worlds
BY DEF WithSession, Worlds, SessionMember

LEMMA WithSessionCores ==
  ASSUME NEW w \in Worlds, NEW k \in Core, NEW s \in Session, NEW c \in Client
  PROVE  WithSession(w, k, s, c).core = w.core
BY DEF WithSession, Worlds

LEMMA WithSessionSound ==
  ASSUME NEW w, Sound(w), NEW k \in Core, NEW s \in Session, NEW c \in Client
  PROVE  Sound(WithSession(w, k, s, c))
<1> DEFINE v == WithSession(w, k, s, c)
<1>1. w \in Worlds
  BY DEF Sound
<1>2. /\ v.core = w.core
      /\ v.session = [w.session EXCEPT ![s] = [status |-> "live", core |-> k, owner |-> c]]
      /\ v \in Worlds
  BY <1>1, WithSessionFields
<1>3. w.session \in [Session -> SessionMember]
  BY <1>1 DEF Worlds
<1> HIDE DEF v
<1>4. Fits(v) /\ AtWork(v)
  BY <1>2 DEF Sound, Fits, AtWork
<1>5. Parented(v)
  BY <1>2, <1>3, SessionsAssumption DEF Sound, Parented
<1> QED
  BY <1>2, <1>4, <1>5 DEF Sound, v

(* A world with a new core *)
LEMMA WithCoreCores ==
  ASSUME NEW w \in Worlds, NEW i \in Ids \cup {NewIdentity}, NEW m \in Method, NEW k \in Core
  PROVE  /\ WithCore(w, i, m, k).core[k] = NewCore(i, m)
         /\ \A l \in Core \ {k} : WithCore(w, i, m, k).core[l] = w.core[l]
         /\ WithCore(w, i, m, k).session = w.session
BY DEF WithCore, Worlds, Key

LEMMA WithCoreUnstored ==
  ASSUME NEW w \in Worlds, NEW m \in Method, NEW k \in Core
  PROVE  /\ WithCore(w, NewIdentity, m, k).stored = w.stored
         /\ WithCore(w, NewIdentity, m, k).nonStored = w.nonStored \cup {k}
BY DEF WithCore, Worlds, Key

LEMMA WithCoreStored ==
  ASSUME NEW w \in Worlds, NEW i \in Ids, NEW m \in Method, NEW k \in Core
  PROVE  /\ WithCore(w, i, m, k).stored[<<i, m>>] = k
         /\ \A key \in Key \ {<<i, m>>} : WithCore(w, i, m, k).stored[key] = w.stored[key]
         /\ WithCore(w, i, m, k).nonStored = w.nonStored
<1>1. i # NewIdentity /\ <<i, m>> \in Key
  BY SessionsAssumption DEF Key
<1> QED
  BY <1>1 DEF WithCore, Worlds

LEMMA WithCoreType ==
  ASSUME NEW w \in Worlds, NEW i \in Ids \cup {NewIdentity}, NEW m \in Method, NEW k \in Core
  PROVE  WithCore(w, i, m, k) \in Worlds
<1>1. NewCore(i, m) \in CoreMember
  BY NoCoreType DEF NewCore, CoreMember
<1>2. i # NewIdentity => <<i, m>> \in Key
  BY DEF Key
<1> QED
  BY <1>1, <1>2 DEF WithCore, Worlds

LEMMA NewCoreFields ==
  ASSUME NEW i \in Ids \cup {NewIdentity}, NEW m \in Method
  PROVE  /\ NewCore(i, m) \in CoreMember
         /\ NewCore(i, m).status = "live"
         /\ NewCore(i, m).id = i /\ NewCore(i, m).method = m
         /\ NewCore(i, m).queue = <<>>
         /\ ~NewCore(i, m).active /\ ~NewCore(i, m).posted
         /\ NewCore(i, m).autoDestruct /\ ~NewCore(i, m).idle
BY NoCoreType DEF NewCore, NoCore, CoreMember

LEMMA WithCoreSound ==
  ASSUME NEW w, Sound(w), NEW i \in Ids \cup {NewIdentity}, NEW m \in Method, NEW k \in Core
  PROVE  Sound(WithCore(w, i, m, k))
<1> DEFINE v == WithCore(w, i, m, k)
<1>1. w \in Worlds
  BY DEF Sound
<1>2. /\ v.core[k] = NewCore(i, m) /\ \A l \in Core \ {k} : v.core[l] = w.core[l]
      /\ v.session = w.session
  BY <1>1, WithCoreCores
<1>7. v \in Worlds
  BY <1>1, WithCoreType
<1>3. w.core \in [Core -> CoreMember]
  BY <1>1 DEF Worlds
<1> HIDE DEF v
<1>4. Fits(v)
  <2>1. Len(<<>>) = 0
    OBVIOUS
  <2> QED
    BY <1>2, <1>3, <2>1, NewCoreFields, SessionsAssumption DEF Sound, Fits
<1>5. AtWork(v)
  BY <1>2, <1>3, NewCoreFields DEF Sound, AtWork
<1>6. Parented(v)
  BY <1>2 DEF Sound, Parented
<1> QED
  BY <1>4, <1>5, <1>6, <1>7 DEF Sound, v

(* What getAuthSession() may leave: the world as it is, where there is no plug-in; or a
   session of the core that is registered, or of one that it registers. *)
LEMMA CreatedIs ==
  ASSUME NEW w \in Worlds, NEW c \in Client, NEW i \in Ids \cup {NewIdentity}, NEW m \in Method,
         NEW v \in Created(w, c, i, m)
  PROVE  \/ v = w
         \/ \E k \in Core, s \in Session :
              /\ w.core[k].status = "none" /\ w.session[s].status = "none"
              /\ i = NewIdentity \/ w.stored[<<i, m>>] = Null
              /\ v = WithSession(WithCore(w, i, m, k), k, s, c)
         \/ \E s \in Session :
              /\ w.session[s].status = "none"
              /\ i # NewIdentity /\ w.stored[<<i, m>>] \in Core
              /\ v = WithSession(w, w.stored[<<i, m>>], s, c)
<1>1. i # NewIdentity => w.stored[<<i, m>>] \in Core \cup {Null}
  BY DEF Worlds, Key
<1>2. CASE v \in Started(w, c, i, m) /\ (i = NewIdentity \/ w.stored[<<i, m>>] = Null)
  BY <1>2 DEF Started, Free
<1>3. CASE v \in Joined(w, c, i, m) /\ i # NewIdentity /\ w.stored[<<i, m>>] # Null
  BY <1>1, <1>3 DEF Joined, Free
<1> QED
  BY <1>2, <1>3, SessionsAssumption DEF Created

LEMMA CreatedSound ==
  ASSUME NEW w, Sound(w), NEW c \in Client, NEW i \in Ids \cup {NewIdentity}, NEW m \in Method,
         NEW v \in Created(w, c, i, m)
  PROVE  Sound(v)
<1>1. w \in Worlds
  BY DEF Sound
<1>2. \A k \in Core : Sound(WithCore(w, i, m, k))
  BY WithCoreSound
<1>3. \A k \in Core, s \in Session : Sound(WithSession(WithCore(w, i, m, k), k, s, c))
  BY <1>2, WithSessionSound
<1>4. \A k \in Core, s \in Session : Sound(WithSession(w, k, s, c))
  BY WithSessionSound
<1>5. CASE \E k \in Core, s \in Session : v = WithSession(WithCore(w, i, m, k), k, s, c)
  BY <1>3, <1>5
<1>6. CASE \E s \in Session : w.stored[<<i, m>>] \in Core /\ v = WithSession(w, w.stored[<<i, m>>], s, c)
  BY <1>4, <1>6
<1> QED
  BY <1>1, <1>5, <1>6, CreatedIs

LEMMA BecomeTyped ==
  ASSUME NEW w, Sound(w), Become(w), UNCHANGED interference, interference \in Interferences,
         lists' \in [Ids -> Infos], request' \in [Client -> Key \cup {Null}]
  PROVE  TypeOK'
<1>1. /\ core' \in [Core -> CoreMember] /\ stored' \in [Key -> Core \cup {Null}]
      /\ nonStored' \subseteq Core /\ session' \in [Session -> SessionMember]
      /\ opened' \in Session \cup {Null}
  BY DEF Sound, Worlds, Become
<1>2. /\ \A k \in Core : Len(core'[k].queue) <= MaxQueue
      /\ \A k \in Core : core'[k].active => core'[k].queue # <<>>
      /\ \A s \in Session : session'[s].status = "none" <=> session'[s].core = Null
  BY DEF Sound, Fits, AtWork, Parented, Become
<1> QED
  BY <1>1, <1>2 DEF TypeOK

(* A handler that changes one core *)
LEMMA CoreTyped ==
  ASSUME TypeOK, NEW k \in Core, NEW r \in CoreMember,
         Len(r.queue) <= MaxQueue, r.active => r.queue # <<>>,
         core' = [core EXCEPT ![k] = r], opened' = Null,
         UNCHANGED <<stored, nonStored, session, lists, request, interference>>
  PROVE  TypeOK'
<1>1. core' \in [Core -> CoreMember]
  BY DEF TypeOK
<1>2. \A l \in Core : Len(core'[l].queue) <= MaxQueue
  BY DEF TypeOK
<1>3. \A l \in Core : core'[l].active => core'[l].queue # <<>>
  BY DEF TypeOK
<1> QED
  BY <1>1, <1>2, <1>3 DEF TypeOK

(* What a session calls is a core. *)
LEMMA CalledCore ==
  ASSUME TypeOK, NEW s \in Session, session[s].status # "none"
  PROVE  /\ session[s].core \in Core
         /\ core[session[s].core] \in CoreMember
         /\ Len(core[session[s].core].queue) <= MaxQueue
         /\ core[session[s].core].active => core[session[s].core].queue # <<>>
BY DEF TypeOK, SessionMember

(* What is left of the queue after cancel() *)
LEMMA WithdrawnIs ==
  ASSUME NEW r \in CoreMember, NEW s \in Session
  PROVE  \/ /\ Withdrawn(r, s) = r
            /\ (\E j \in DOMAIN r.queue : r.queue[j].from = s)
                 => r.active /\ 1 \in DOMAIN r.queue /\ r.queue[1].from = s
         \/ \E n \in DOMAIN r.queue :
              /\ r.queue[n].from = s
              /\ n = 1 => ~r.active
              /\ Withdrawn(r, s) = [r EXCEPT !.queue = RemoveAt(r.queue, n)]
<1> DEFINE mine == {j \in DOMAIN r.queue : r.queue[j].from = s}
           first == CHOOSE j \in mine : \A l \in mine : j <= l
<1>1. r.queue \in Seq(Request) /\ DOMAIN r.queue = 1 .. Len(r.queue) /\ Len(r.queue) \in Nat
  BY LenProperties DEF CoreMember
<1>2. CASE mine = {}
  BY <1>2 DEF Withdrawn
<1>3. CASE mine # {}
  <2>1. mine \in SUBSET Nat
    BY <1>1
  <2>2. first \in mine
    BY <1>3, <2>1, LeastNatural
  <2>3. Withdrawn(r, s) = IF first = 1 /\ r.active THEN r
                          ELSE [r EXCEPT !.queue = RemoveAt(r.queue, first)]
    BY <1>3 DEF Withdrawn
  <2> HIDE DEF first
  <2> QED
    BY <2>2, <2>3
<1> QED
  BY <1>2, <1>3

LEMMA WithdrawnTyped ==
  ASSUME NEW r \in CoreMember, NEW s \in Session,
         Len(r.queue) <= MaxQueue, r.active => r.queue # <<>>
  PROVE  /\ Withdrawn(r, s) \in CoreMember
         /\ Len(Withdrawn(r, s).queue) <= MaxQueue
         /\ Withdrawn(r, s).active => Withdrawn(r, s).queue # <<>>
<1> DEFINE v == Withdrawn(r, s)
<1>1. CASE v = r
  BY <1>1
<1>2. CASE \E n \in DOMAIN r.queue : /\ r.queue[n].from = s
                                     /\ n = 1 => ~r.active
                                     /\ v = [r EXCEPT !.queue = RemoveAt(r.queue, n)]
  <2>1. PICK n \in DOMAIN r.queue : /\ n = 1 => ~r.active
                                    /\ v = [r EXCEPT !.queue = RemoveAt(r.queue, n)]
    BY <1>2
  <2> HIDE DEF v
  <2>2. r.queue \in Seq(Request) /\ DOMAIN r.queue = 1 .. Len(r.queue) /\ Len(r.queue) \in Nat
    BY LenProperties DEF CoreMember
  <2> DEFINE q == RemoveAt(r.queue, n)
  <2>3. q \in Seq(Request) /\ Len(q) = Len(r.queue) - 1
    BY <2>2, RemoveAtProperties
  <2> HIDE DEF q
  <2>4. v.queue = q /\ v.active = r.active /\ v \in CoreMember
    BY <2>1, <2>3 DEF q, CoreMember
  <2>5. r.active => n # 1 /\ Len(q) # 0
    BY <2>1, <2>2, <2>3
  <2>6. q = <<>> => Len(q) = 0
    OBVIOUS
  <2> QED
    BY <2>2, <2>3, <2>4, <2>5, <2>6, SessionsAssumption DEF v
<1> QED
  BY <1>1, <1>2, WithdrawnIs

-------------------------------------------------------------------------------
(* What each handler makes of a core *)

Same(r, q) == r.status = q.status /\ r.id = q.id /\ r.method = q.method

CoreBecomes(k, r) ==
  /\ core' = [core EXCEPT ![k] = r]
  /\ opened' = Null
  /\ UNCHANGED <<stored, nonStored, lists, request>>

(* The words that may be used of those asked for *)
Permits(info, m, words) ==
  DOMAIN info.methods # {} =>
    /\ m \in DOMAIN info.methods
    /\ info.methods[m] # {} => words \subseteq info.methods[m]

LEMMA GrantedIsPermitted ==
  ASSUME NEW info, NEW m, NEW words, Granted(info, m, words) # {}
  PROVE  Permits(info, m, Granted(info, m, words)) /\ Granted(info, m, words) \subseteq words
BY DEF Granted, Permits

LEMMA InUseIs ==
  ASSUME NEW r \in CoreMember
  PROVE  /\ InUse(r) \in CoreMember /\ Same(InUse(r), r)
         /\ InUse(r).queue = r.queue /\ InUse(r).active = r.active
         /\ InUse(r).posted = r.posted /\ InUse(r).autoDestruct = r.autoDestruct
         /\ InUse(r).idle = FALSE
BY DEF InUse, Same, CoreMember

LEMMA ProcessIs ==
  ASSUME TypeOK, NEW c \in Client, NEW s \in Session, NEW words \in (SUBSET Word) \ {{}},
         Process(c, s, words)
  PROVE  LET k == session[s].core IN
         /\ k \in Core /\ session[s].status = "live" /\ UNCHANGED session
         /\ Open(s) => "again" \in interference
         /\ \E r \in CoreMember :
              /\ CoreBecomes(k, r) /\ Same(r, core[k])
              /\ r.active = core[k].active /\ r.autoDestruct = core[k].autoDestruct /\ ~r.idle
              /\ \/ r.queue = core[k].queue /\ r.posted = core[k].posted
                 \/ /\ r.posted /\ Len(core[k].queue) < MaxQueue
                    /\ \E g \in (SUBSET Word) \ {{}} :
                         /\ r.queue = Append(core[k].queue, [from |-> s, words |-> g])
                         /\ core[k].id # NewIdentity /\ "closed" \notin interference
                              => Permits(lists[core[k].id], core[k].method, g)
<1> DEFINE k == session[s].core
           i == core[k].id
<1>0. PICK g \in Checked(k, words) :
        core' = [core EXCEPT ![k] = IF g = {} THEN InUse(@) ELSE Enqueued(InUse(@), s, g)]
  BY DEF Process
<1> DEFINE u == InUse(core[k])
           q == Append(u.queue, [from |-> s, words |-> g])
           r == IF g = {} THEN u ELSE Enqueued(u, s, g)
<1>1. session[s].status = "live"
  BY DEF Process, Calls
<1>2. k \in Core /\ core[k] \in CoreMember
  BY <1>1, CalledCore
<1>3. core' = [core EXCEPT ![k] = r]
  BY <1>0
<1>4. CoreBecomes(k, r) /\ UNCHANGED session /\ (Open(s) => "again" \in interference)
      /\ Len(core[k].queue) < MaxQueue
  BY <1>3 DEF Process, CoreBecomes
<1>5. /\ u \in CoreMember /\ Same(u, core[k])
      /\ u.queue = core[k].queue /\ u.active = core[k].active
      /\ u.posted = core[k].posted /\ u.autoDestruct = core[k].autoDestruct /\ u.idle = FALSE
  BY <1>2, InUseIs
<1>6. g # {} =>
        /\ g \in (SUBSET Word) \ {{}}
        /\ i # NewIdentity /\ "closed" \notin interference
             => Permits(lists[i], core[k].method, g)
  <2>1. CASE g = words /\ (i = NewIdentity \/ "closed" \in interference)
    BY <2>1
  <2>2. CASE i # NewIdentity /\ g = Granted(lists[i], core[k].method, words)
    BY <2>2, GrantedIsPermitted
  <2> QED
    BY <1>0, <2>1, <2>2 DEF Checked
<1> HIDE DEF u
<1>7. core[k].queue \in Seq(Request)
  BY <1>2 DEF CoreMember
<1>8. g # {} => q \in Seq(Request)
  BY <1>5, <1>6, <1>7, AppendProperties DEF Request
<1> HIDE DEF q
<1>9. CASE g = {}
  BY <1>1, <1>2, <1>4, <1>5, <1>9
<1>10. CASE g # {}
  <2>1. /\ r \in CoreMember /\ Same(r, core[k]) /\ r.queue = q /\ r.posted = TRUE
        /\ r.active = core[k].active /\ r.autoDestruct = core[k].autoDestruct /\ r.idle = FALSE
    BY <1>5, <1>8, <1>10 DEF CoreMember, Same, Enqueued, q
  <2> HIDE DEF r
  <2>2. q = Append(core[k].queue, [from |-> s, words |-> g])
    BY <1>5 DEF q
  <2> QED
    BY <1>1, <1>2, <1>4, <1>6, <1>10, <2>1, <2>2
<1> QED
  BY <1>9, <1>10

LEMMA CancelIs ==
  ASSUME TypeOK, NEW c \in Client, NEW s \in Session, Cancel(c, s) \/ ObjectUnref(c, s)
  PROVE  LET k == session[s].core IN
         /\ k \in Core /\ session[s].status = "live"
         /\ Withdrawn(core[k], s) \in CoreMember
         /\ CoreBecomes(k, Withdrawn(core[k], s))
         /\ \/ Cancel(c, s) /\ UNCHANGED session
            \/ session' = [session EXCEPT ![s].status = "doomed"]
<1>1. session[s].status = "live"
  BY DEF Cancel, ObjectUnref, Calls
<1>2. /\ session[s].core \in Core
      /\ Withdrawn(core[session[s].core], s) \in CoreMember
  BY <1>1, CalledCore, WithdrawnTyped
<1> QED
  BY <1>1, <1>2 DEF Cancel, ObjectUnref, CoreBecomes

LEMMA QueryIs ==
  ASSUME TypeOK, NEW s \in Session, Query(s)
  PROVE  LET k == session[s].core IN
         /\ k \in Core /\ InUse(core[k]) \in CoreMember
         /\ CoreBecomes(k, InUse(core[k])) /\ UNCHANGED session
<1>1. session[s].status = "live"
  BY DEF Query
<1> QED
  BY <1>1, CalledCore, InUseIs DEF Query, CoreBecomes

LEMMA StartNewRequestIs ==
  ASSUME TypeOK, NEW k \in Core, StartNewRequest(k)
  PROVE  /\ UNCHANGED session
         /\ \E r \in CoreMember :
              /\ CoreBecomes(k, r) /\ Same(r, core[k]) /\ r.queue = core[k].queue
              /\ r.active = (core[k].active \/ core[k].queue # <<>>)
              /\ core[k].queue # <<>> /\ ~core[k].active => ~r.autoDestruct
              /\ core[k].queue # <<>> /\ core[k].active => r.autoDestruct = core[k].autoDestruct
<1> DEFINE u == InUse(core[k])
           r == Begun(u)
<1>1. core[k] \in CoreMember
  BY DEF TypeOK
<1>2. /\ u \in CoreMember /\ Same(u, core[k])
      /\ u.queue = core[k].queue /\ u.active = core[k].active
      /\ u.autoDestruct = core[k].autoDestruct
  BY <1>1, InUseIs
<1>3. CoreBecomes(k, r) /\ UNCHANGED session
  BY DEF StartNewRequest, CoreBecomes
<1> HIDE DEF u
<1>4. /\ r \in CoreMember /\ Same(r, core[k]) /\ r.queue = u.queue
      /\ r.active = (u.active \/ u.queue # <<>>)
      /\ r.autoDestruct = (u.queue = <<>> \/ (u.active /\ u.autoDestruct))
  BY <1>2 DEF CoreMember, Same, Begun
<1> HIDE DEF r
<1> QED
  BY <1>2, <1>3, <1>4 DEF CoreMember

LEMMA RequestDoneIs ==
  ASSUME TypeOK, NEW k \in Core, RequestDone(k)
  PROVE  /\ UNCHANGED session /\ core[k].active
         /\ \E r \in CoreMember :
              /\ CoreBecomes(k, r) /\ Same(r, core[k])
              /\ ~r.active /\ r.posted /\ r.autoDestruct = core[k].autoDestruct
              /\ r.queue = Tail(core[k].queue)
<1> DEFINE q == Tail(core[k].queue)
           r == Ended(core[k])
<1>1. core[k] \in CoreMember /\ core[k].active /\ core[k].queue # <<>>
  BY DEF TypeOK, RequestDone
<1>2. q \in Seq(Request)
  BY <1>1, TailIsRemoveAt, HeadTailProperties DEF CoreMember
<1>3. CoreBecomes(k, r) /\ UNCHANGED session
  BY DEF RequestDone, CoreBecomes
<1>4. /\ r \in CoreMember /\ Same(r, core[k]) /\ r.active = FALSE /\ r.posted = TRUE
      /\ r.autoDestruct = core[k].autoDestruct /\ r.queue = q
  BY <1>1, <1>2 DEF CoreMember, Same, Ended
<1> HIDE DEF r
<1> QED
  BY <1>1, <1>3, <1>4 DEF q

LEMMA InactiveIs ==
  ASSUME TypeOK, NEW k \in Core, Inactive(k)
  PROVE  /\ UNCHANGED session /\ ~core[k].posted
         /\ \E r \in CoreMember :
              /\ CoreBecomes(k, r) /\ Same(r, core[k])
              /\ r.active = core[k].active /\ r.autoDestruct = core[k].autoDestruct
              /\ r.queue = core[k].queue /\ r.posted = core[k].posted
<1> DEFINE r == [core[k] EXCEPT !.idle = TRUE]
<1>1. core[k] \in CoreMember
  BY DEF TypeOK
<1>2. CoreBecomes(k, r) /\ UNCHANGED session /\ ~core[k].posted
  BY DEF Inactive, CoreBecomes
<1>3. /\ r \in CoreMember /\ Same(r, core[k]) /\ r.active = core[k].active
      /\ r.posted = core[k].posted
      /\ r.autoDestruct = core[k].autoDestruct /\ r.queue = core[k].queue
  BY <1>1 DEF CoreMember, Same
<1> HIDE DEF r
<1> QED
  BY <1>2, <1>3

LEMMA SetIdIs ==
  ASSUME TypeOK, NEW c \in Client, NEW s \in Session, NEW i \in Ids, SetId(c, s, i)
  PROVE  LET k == session[s].core IN
         /\ k \in Core /\ session[s].status = "live" /\ UNCHANGED <<session, lists, request>>
         /\ opened' = Null
         /\ i # core[k].id /\ core[k].id # NewIdentity => "reassign" \in interference
         /\ i # core[k].id /\ core[k].queue # <<>> => "waiting" \in interference
         /\ \E r \in CoreMember :
              /\ core' = [core EXCEPT ![k] = r]
              /\ r.status = core[k].status /\ r.method = core[k].method
              /\ r.active = core[k].active /\ r.autoDestruct = core[k].autoDestruct
              /\ r.queue = core[k].queue /\ r.posted = core[k].posted /\ ~r.idle
              /\ \/ r.id = core[k].id /\ UNCHANGED <<stored, nonStored>>
                 \/ /\ r.id = i /\ i # core[k].id
                    /\ stored[<<i, core[k].method>>] = Null
                    /\ nonStored' = nonStored \ {k}
                    /\ stored' = [stored EXCEPT ![<<i, core[k].method>>] = k]
<1> DEFINE k == session[s].core
           m == core[k].method
           u == InUse(core[k])
           r == [u EXCEPT !.id = i]
<1>1. session[s].status = "live"
  BY DEF SetId, Calls
<1>2. k \in Core /\ core[k] \in CoreMember
  BY <1>1, CalledCore
<1>3. /\ u \in CoreMember /\ Same(u, core[k])
      /\ u.queue = core[k].queue /\ u.active = core[k].active
      /\ u.posted = core[k].posted /\ u.autoDestruct = core[k].autoDestruct /\ u.idle = FALSE
  BY <1>2, InUseIs
<1>4. /\ UNCHANGED <<session, lists, request>> /\ opened' = Null
      /\ i # core[k].id /\ core[k].id # NewIdentity => "reassign" \in interference
      /\ i # core[k].id /\ core[k].queue # <<>> => "waiting" \in interference
  BY DEF SetId
<1>5. \/ /\ core' = [core EXCEPT ![k] = u]
         /\ UNCHANGED <<stored, nonStored>>
      \/ /\ i # core[k].id /\ stored[<<i, m>>] = Null
         /\ nonStored' = nonStored \ {k}
         /\ stored' = [stored EXCEPT ![<<i, m>>] = k]
         /\ core' = [core EXCEPT ![k] = r]
  BY DEF SetId, Assigned
<1> HIDE DEF u
<1>6. /\ r \in CoreMember /\ r.status = u.status /\ r.method = u.method /\ r.id = i
      /\ r.queue = u.queue /\ r.active = u.active
      /\ r.posted = u.posted /\ r.autoDestruct = u.autoDestruct /\ r.idle = FALSE
  BY <1>3 DEF CoreMember
<1> HIDE DEF r
<1>7. CASE core' = [core EXCEPT ![k] = u] /\ UNCHANGED <<stored, nonStored>>
  BY <1>1, <1>2, <1>3, <1>4, <1>7 DEF Same
<1>8. CASE /\ i # core[k].id /\ stored[<<i, m>>] = Null
           /\ nonStored' = nonStored \ {k}
           /\ stored' = [stored EXCEPT ![<<i, m>>] = k]
           /\ core' = [core EXCEPT ![k] = r]
  BY <1>1, <1>2, <1>3, <1>4, <1>6, <1>8 DEF Same
<1> QED
  BY <1>5, <1>7, <1>8
-------------------------------------------------------------------------------
(* Types: every action *)

LEMMA CoreStepTyped ==
  ASSUME TypeOK, UNCHANGED <<session, interference>>,
         NEW k \in Core, NEW r \in CoreMember, CoreBecomes(k, r),
         Len(r.queue) <= MaxQueue, r.active => r.queue # <<>>
  PROVE  TypeOK'
BY CoreTyped DEF CoreBecomes

LEMMA InitTyped ==
  ASSUME Init
  PROVE  TypeOK
<1>1. core \in [Core -> CoreMember] /\ session \in [Session -> SessionMember]
  BY NoCoreType DEF Init
<1>2. /\ \A k \in Core : Len(core[k].queue) <= MaxQueue
      /\ \A k \in Core : core[k].active => core[k].queue # <<>>
  <2>1. NoCore.queue = <<>> /\ NoCore.active = FALSE
    BY DEF NoCore
  <2>2. Len(<<>>) = 0
    OBVIOUS
  <2> QED
    BY <2>1, <2>2, SessionsAssumption DEF Init
<1>3. \A s \in Session : session[s].status = "none" <=> session[s].core = Null
  BY DEF Init, NoSession
<1> QED
  BY <1>1, <1>2, <1>3 DEF Init, TypeOK

LEMMA NextTyped ==
  ASSUME TypeOK, Next
  PROVE  TypeOK'
<1> USE DEF TypeOK
<1>0. UNCHANGED interference /\ interference \in Interferences /\ Sound(World)
  BY WorldIsSound DEF Next
<1>1. ASSUME NEW c \in Client, NEW i \in Ids \cup {NewIdentity}, NEW m \in Method,
             GetAuthSession(c, i, m)
      PROVE  TypeOK'
  <2>1. PICK w \in Created(DestroyUnused(World), c, i, m) : Become(w)
    BY <1>1 DEF GetAuthSession
  <2>2. Sound(w)
    BY <1>0, <2>1, DestroyUnusedSound, CreatedSound
  <2> QED
    BY <1>0, <1>1, <2>1, <2>2, BecomeTyped DEF GetAuthSession
<1>2. ASSUME NEW c \in Client, NEW i \in Ids \cup {NewIdentity}, NEW m \in Method,
             RequestAccess(c, i, m)
      PROVE  TypeOK'
  <2>1. Sound(DestroyUnused(World))
    BY <1>0, DestroyUnusedSound
  <2>2. i \in Ids
    BY <1>2 DEF RequestAccess, AllowedId
  <2>3. request' \in [Client -> Key \cup {Null}]
    BY <1>2, <2>2 DEF RequestAccess, Key
  <2> QED
    BY <1>0, <1>2, <2>1, <2>3, BecomeTyped DEF RequestAccess
<1>3. ASSUME NEW c \in Client, Declined(c)
      PROVE  TypeOK'
  BY <1>0, <1>3, BecomeTyped DEF Declined
<1>4. ASSUME NEW c \in Client, Accepted(c)
      PROVE  TypeOK'
  <2> DEFINE i == request[c][1]
             m == request[c][2]
  <2>1. request[c] # Null /\ request[c] \in Key /\ i \in Ids /\ m \in Method
    BY <1>4 DEF Accepted, Key
  <2>2. PICK w \in Created(World, c, i, m) : Become(Replied(w))
    BY <1>4 DEF Accepted
  <2>3. Sound(Replied(w))
    <3> HIDE DEF i, m
    <3> QED
      BY <1>0, <2>1, <2>2, DestroyUnusedSound, CreatedSound DEF Replied
  <2> QED
    BY <1>0, <1>4, <2>2, <2>3, BecomeTyped DEF Accepted
<1>5. ASSUME NEW c \in Client, NEW s \in Session, NEW words \in (SUBSET Word) \ {{}},
             Process(c, s, words)
      PROVE  TypeOK'
  <2> DEFINE k == session[s].core
  <2>1. PICK r \in CoreMember :
              /\ CoreBecomes(k, r) /\ Same(r, core[k])
              /\ r.active = core[k].active /\ r.autoDestruct = core[k].autoDestruct /\ ~r.idle
              /\ \/ r.queue = core[k].queue /\ r.posted = core[k].posted
                 \/ /\ r.posted /\ Len(core[k].queue) < MaxQueue
                    /\ \E g \in (SUBSET Word) \ {{}} :
                         /\ r.queue = Append(core[k].queue, [from |-> s, words |-> g])
                         /\ core[k].id # NewIdentity /\ "closed" \notin interference
                              => Permits(lists[core[k].id], core[k].method, g)
    BY <1>5, ProcessIs
  <2>2. k \in Core /\ UNCHANGED session
    BY <1>5, ProcessIs
  <2>3. core[k].queue \in Seq(Request)
    BY <2>2 DEF CoreMember
  <2>4. CASE \E g \in (SUBSET Word) \ {{}} :
               /\ Len(core[k].queue) < MaxQueue
               /\ r.queue = Append(core[k].queue, [from |-> s, words |-> g])
    <3>1. PICK e \in Request : r.queue = Append(core[k].queue, e)
      BY <2>4 DEF Request
    <3>2. Len(r.queue) = Len(core[k].queue) + 1 /\ Len(core[k].queue) \in Nat
      BY <2>3, <3>1, LenProperties, AppendProperties
    <3>3. r.queue # <<>>
      BY <3>2
    <3>4. Len(r.queue) <= MaxQueue
      BY <2>4, <3>2, SessionsAssumption
    <3> QED
      BY <1>0, <2>1, <2>2, <3>3, <3>4, CoreStepTyped
  <2>5. CASE r.queue = core[k].queue
    BY <1>0, <2>1, <2>2, <2>5, CoreStepTyped
  <2> QED
    BY <2>1, <2>4, <2>5
<1>6. ASSUME NEW c \in Client, NEW s \in Session, Cancel(c, s) \/ ObjectUnref(c, s)
      PROVE  TypeOK'
  <2> DEFINE k == session[s].core
             r == Withdrawn(core[k], s)
  <2>1. /\ k \in Core /\ session[s].status = "live" /\ r \in CoreMember /\ CoreBecomes(k, r)
        /\ UNCHANGED session \/ session' = [session EXCEPT ![s].status = "doomed"]
    BY <1>6, CancelIs
  <2>2. Len(r.queue) <= MaxQueue /\ (r.active => r.queue # <<>>)
    BY <2>1, WithdrawnTyped
  <2> HIDE DEF r, k
  <2>3. /\ session' \in [Session -> SessionMember]
        /\ \A t \in Session : session'[t].status = "none" <=> session'[t].core = Null
    <3>1. session \in [Session -> SessionMember]
      OBVIOUS
    <3>2. CASE UNCHANGED session
      BY <3>2
    <3>3. CASE session' = [session EXCEPT ![s].status = "doomed"]
      BY <2>1, <3>1, <3>3 DEF SessionMember
    <3> QED
      BY <2>1, <3>2, <3>3
  <2>4. core' \in [Core -> CoreMember]
    BY <2>1 DEF CoreBecomes
  <2>5. /\ \A l \in Core : Len(core'[l].queue) <= MaxQueue
        /\ \A l \in Core : core'[l].active => core'[l].queue # <<>>
    BY <2>1, <2>2 DEF CoreBecomes
  <2> QED
    BY <1>0, <2>1, <2>3, <2>4, <2>5 DEF CoreBecomes
<1>7. ASSUME NEW c \in Client, NEW s \in Session, NEW i \in Ids, SetId(c, s, i)
      PROVE  TypeOK'
  <2> DEFINE k == session[s].core
  <2>1. PICK r \in CoreMember :
              /\ core' = [core EXCEPT ![k] = r]
              /\ r.active = core[k].active /\ r.queue = core[k].queue
              /\ \/ UNCHANGED <<stored, nonStored>>
                 \/ /\ nonStored' = nonStored \ {k}
                    /\ stored' = [stored EXCEPT ![<<i, core[k].method>>] = k]
    BY <1>7, SetIdIs
  <2>2. k \in Core /\ UNCHANGED <<session, lists, request>> /\ opened' = Null
    BY <1>7, SetIdIs
  <2> HIDE DEF k
  <2>3. core[k].method \in Method
    BY <2>2 DEF CoreMember
  <2>4. core' \in [Core -> CoreMember]
    BY <2>1, <2>2
  <2>5. stored' \in [Key -> Core \cup {Null}] /\ nonStored' \subseteq Core
    BY <2>1, <2>2, <2>3 DEF Key
  <2>6. /\ \A l \in Core : Len(core'[l].queue) <= MaxQueue
        /\ \A l \in Core : core'[l].active => core'[l].queue # <<>>
    BY <2>1, <2>2
  <2> QED
    BY <1>0, <2>2, <2>4, <2>5, <2>6
<1>8. ASSUME NEW c \in Client, NEW i \in Ids, NEW l \in Infos, StoreLists(c, i, l)
      PROVE  TypeOK'
  BY <1>0, <1>8 DEF StoreLists
<1>9. ASSUME NEW k \in Core, StartNewRequest(k)
      PROVE  TypeOK'
  <2>1. PICK r \in CoreMember : CoreBecomes(k, r) /\ r.queue = core[k].queue
                                /\ r.active = (core[k].active \/ core[k].queue # <<>>)
    BY <1>9, StartNewRequestIs
  <2>2. UNCHANGED session
    BY <1>9, StartNewRequestIs
  <2> QED
    BY <1>0, <2>1, <2>2, CoreStepTyped
<1>10. ASSUME NEW k \in Core, RequestDone(k)
       PROVE  TypeOK'
  <2>1. PICK r \in CoreMember : CoreBecomes(k, r) /\ r.queue = Tail(core[k].queue) /\ ~r.active
    BY <1>10, RequestDoneIs
  <2>2. UNCHANGED session /\ core[k].active
    BY <1>10, RequestDoneIs
  <2>3. core[k].queue \in Seq(Request) /\ core[k].queue # <<>>
    BY <2>2 DEF CoreMember
  <2>4. Len(r.queue) = Len(core[k].queue) - 1 /\ Len(core[k].queue) \in Nat
    BY <2>1, <2>3, HeadTailProperties, LenProperties
  <2>5. Len(r.queue) <= MaxQueue
    BY <2>4, SessionsAssumption
  <2> QED
    BY <1>0, <2>1, <2>2, <2>5, CoreStepTyped
<1>11. ASSUME NEW k \in Core, Inactive(k)
       PROVE  TypeOK'
  <2>1. PICK r \in CoreMember : CoreBecomes(k, r) /\ r.queue = core[k].queue
                                /\ r.active = core[k].active
    BY <1>11, InactiveIs
  <2>2. UNCHANGED session
    BY <1>11, InactiveIs
  <2> QED
    BY <1>0, <2>1, <2>2, CoreStepTyped
<1>12. ASSUME NEW k \in Core, DeleteCore(k)
       PROVE  TypeOK'
  <2>1. /\ core' = [core EXCEPT ![k] = NoCore]
        /\ session' = [s \in Session |-> IF session[s].core = k THEN NoSession ELSE session[s]]
        /\ opened' = Null /\ UNCHANGED <<stored, nonStored, lists, request>>
    BY <1>12 DEF DeleteCore
  <2>2. core' \in [Core -> CoreMember] /\ session' \in [Session -> SessionMember]
    BY <2>1, NoCoreType
  <2>3. /\ \A l \in Core : Len(core'[l].queue) <= MaxQueue
        /\ \A l \in Core : core'[l].active => core'[l].queue # <<>>
    <3>1. NoCore.queue = <<>> /\ NoCore.active = FALSE
      BY DEF NoCore
    <3>2. Len(<<>>) = 0
      OBVIOUS
    <3> QED
      BY <2>1, <3>1, <3>2, SessionsAssumption
  <2>4. \A t \in Session : session'[t].status = "none" <=> session'[t].core = Null
    BY <2>1 DEF NoSession
  <2> QED
    BY <1>0, <2>1, <2>2, <2>3, <2>4
<1>13. ASSUME NEW s \in Session, Query(s)
       PROVE  TypeOK'
  <2> DEFINE k == session[s].core
             r == InUse(core[k])
  <2>1. k \in Core /\ r \in CoreMember /\ CoreBecomes(k, r) /\ UNCHANGED session
    BY <1>13, QueryIs
  <2>2. core[k] \in CoreMember
    BY <2>1
  <2>3. r.queue = core[k].queue /\ r.active = core[k].active
    BY <2>2, InUseIs
  <2> HIDE DEF r
  <2> QED
    BY <1>0, <2>1, <2>3, CoreStepTyped
<1>14. ASSUME NEW s \in Session, DeleteSession(s)
       PROVE  TypeOK'
  <2>1. session' \in [Session -> SessionMember]
    BY <1>14, NoCoreType DEF DeleteSession
  <2>2. \A t \in Session : session'[t].status = "none" <=> session'[t].core = Null
    BY <1>14 DEF DeleteSession, NoSession
  <2> QED
    BY <1>0, <1>14, <2>1, <2>2 DEF DeleteSession
<1>15. CASE DisposeTimer
  <2>1. Sound(DestroyUnused(World))
    BY <1>0, DestroyUnusedSound
  <2> QED
    BY <1>0, <1>15, <2>1, BecomeTyped DEF DisposeTimer
<1>16. CASE StopAll
  <2>1. core' \in [Core -> CoreMember] /\ session' \in [Session -> SessionMember]
    BY <1>16, NoCoreType DEF StopAll
  <2>2. /\ \A k \in Core : Len(core'[k].queue) <= MaxQueue
        /\ \A k \in Core : core'[k].active => core'[k].queue # <<>>
    <3>1. NoCore.queue = <<>> /\ NoCore.active = FALSE
      BY DEF NoCore
    <3>2. Len(<<>>) = 0
      OBVIOUS
    <3> QED
      BY <1>16, <3>1, <3>2, SessionsAssumption DEF StopAll
  <2>3. \A s \in Session : session'[s].status = "none" <=> session'[s].core = Null
    BY <1>16 DEF StopAll, NoSession
  <2> QED
    BY <1>0, <1>16, <2>1, <2>2, <2>3 DEF StopAll
<1> QED
  BY <1>1, <1>2, <1>3, <1>4, <1>5, <1>6, <1>7, <1>8, <1>9, <1>10, <1>11, <1>12, <1>13, <1>14,
     <1>15, <1>16 DEF Next
-------------------------------------------------------------------------------
(* The registries, and what they rest on: no setId() from a stored identity to another
   (see "reassign").  The registries and the cores agree; *)

Keyed(w) ==
  \A key \in Key : w.stored[key] # Null =>
    /\ w.core[w.stored[key]].status = "live"
    /\ key = <<w.core[w.stored[key]].id, w.core[w.stored[key]].method>>

Unkeyed(w) == \A k \in w.nonStored : w.core[k].status = "live"

Found(w) ==
  \A k \in Core : w.core[k].status = "live" =>
    IF w.core[k].id = NewIdentity THEN k \in w.nonStored
    ELSE k \notin w.nonStored /\ w.stored[<<w.core[k].id, w.core[k].method>>] = k

(* a session has a core that is alive; *)
Housed(w) ==
  \A s \in Session : w.session[s].status # "none" => w.core[w.session[s].core].status = "live"

(* and a core with requests is one that destroyUnused() leaves alone: it is at work and
   must not be destroyed, or has an event to wait for. *)
ServedCore(r) ==
  /\ r.active => ~r.autoDestruct
  /\ r.queue # <<>> => r.status = "live"
  /\ ~r.active /\ r.queue # <<>> => r.posted /\ (r.idle => ~r.autoDestruct)

Served(w) == \A k \in Core : ServedCore(w.core[k])

Kept(w) == Keyed(w) /\ Unkeyed(w) /\ Found(w) /\ Housed(w) /\ Served(w)

(* So a core that goes has no request, and destroyUnused() means no more than this: *)
LEMMA UnusedIsGone ==
  ASSUME NEW w, Sound(w), Served(w), NEW k \in Core
  PROVE  /\ Unused(w, k) <=> Gone(w, k)
         /\ Gone(w, k) => /\ w.core[k].queue = <<>> /\ w.core[k].status = "live"
                          /\ DestroyUnused(w).core[k].status = "doomed"
                          /\ DestroyUnused(w).core[k].queue = <<>>
                          /\ ~DestroyUnused(w).core[k].active
         /\ ~Gone(w, k) => DestroyUnused(w).core[k] = w.core[k]
<1>1. w \in Worlds /\ ServedCore(w.core[k]) /\ w.core[k] \in CoreMember
  BY DEF Sound, Served, Worlds
<1>2. Unused(w, k) <=> Gone(w, k)
  BY <1>1 DEF Gone, Unused, ServedCore
<1>3. Gone(w, k) => w.core[k].queue = <<>> /\ w.core[k].status = "live" /\ ~w.core[k].active
  BY <1>1 DEF Gone, Unused, ServedCore
<1>4. DestroyUnused(w).core[k] = IF Unused(w, k) THEN Destroyed(w.core[k]) ELSE w.core[k]
  BY <1>1, DestroyUnusedCore
<1>5. ~w.core[k].active => /\ Destroyed(w.core[k]).status = "doomed"
                           /\ Destroyed(w.core[k]).queue = w.core[k].queue
                           /\ Destroyed(w.core[k]).active = w.core[k].active
  BY <1>1 DEF Destroyed, CoreMember
<1> QED
  BY <1>2, <1>3, <1>4, <1>5

LEMMA DestroyUnusedKept ==
  ASSUME NEW w, Sound(w), Kept(w)
  PROVE  Kept(DestroyUnused(w))
<1> DEFINE v == DestroyUnused(w)
<1>1. w \in Worlds
  BY DEF Sound
<1>2. /\ v.stored = [key \in Key |->
           IF \E k \in Core : Gone(w, k) /\ key = <<w.core[k].id, w.core[k].method>>
             THEN Null ELSE w.stored[key]]
      /\ v.nonStored = {k \in w.nonStored : ~Gone(w, k)}
      /\ v.session = [s \in Session |->
           IF w.session[s].core # Null /\ Gone(w, w.session[s].core)
             THEN NoSession ELSE w.session[s]]
  BY <1>1, DestroyUnusedFields
<1>3. \A k \in Core : /\ Gone(w, k) => /\ v.core[k].status = "doomed" /\ v.core[k].queue = <<>>
                                       /\ ~v.core[k].active /\ w.core[k].status = "live"
                      /\ ~Gone(w, k) => v.core[k] = w.core[k]
  BY UnusedIsGone DEF Kept
<1>4. /\ w.stored \in [Key -> Core \cup {Null}] /\ w.nonStored \subseteq Core
      /\ w.session \in [Session -> SessionMember] /\ w.core \in [Core -> CoreMember]
  BY <1>1 DEF Worlds
<1> HIDE DEF v
<1>5. Keyed(v)
  <2> SUFFICES ASSUME NEW key \in Key, v.stored[key] # Null
               PROVE  /\ v.core[v.stored[key]].status = "live"
                      /\ key = <<v.core[v.stored[key]].id, v.core[v.stored[key]].method>>
    BY DEF Keyed
  <2>1. /\ v.stored[key] = w.stored[key]
        /\ \A k \in Core : Gone(w, k) => key # <<w.core[k].id, w.core[k].method>>
    BY <1>2
  <2>2. w.stored[key] \in Core
    BY <1>4, <2>1
  <2>3. /\ w.core[w.stored[key]].status = "live"
        /\ key = <<w.core[w.stored[key]].id, w.core[w.stored[key]].method>>
    BY <2>1 DEF Kept, Keyed
  <2> QED
    BY <1>3, <2>1, <2>2, <2>3
<1>6. Unkeyed(v)
  BY <1>2, <1>3, <1>4 DEF Kept, Unkeyed
<1>7. Found(v)
  <2> SUFFICES ASSUME NEW k \in Core, v.core[k].status = "live"
               PROVE  IF v.core[k].id = NewIdentity THEN k \in v.nonStored
                      ELSE /\ k \notin v.nonStored
                           /\ v.stored[<<v.core[k].id, v.core[k].method>>] = k
    BY DEF Found
  <2>1. ~Gone(w, k) /\ v.core[k] = w.core[k]
    BY <1>3
  <2>2. IF w.core[k].id = NewIdentity THEN k \in w.nonStored
        ELSE k \notin w.nonStored /\ w.stored[<<w.core[k].id, w.core[k].method>>] = k
    BY <2>1 DEF Kept, Found
  <2>3. CASE w.core[k].id = NewIdentity
    BY <1>2, <2>1, <2>2, <2>3
  <2>4. CASE w.core[k].id # NewIdentity
    <3> DEFINE key == <<w.core[k].id, w.core[k].method>>
    <3>1. key \in Key
      BY <1>4, <2>4 DEF Key, CoreMember
    <3>2. ASSUME NEW l \in Core, Gone(w, l), key = <<w.core[l].id, w.core[l].method>>
          PROVE  FALSE
      <4>1. w.core[l].id = w.core[k].id /\ w.core[l].method = w.core[k].method
        BY <3>2
      <4>2. w.stored[<<w.core[l].id, w.core[l].method>>] = l
        BY <1>3, <2>4, <3>2, <4>1 DEF Kept, Found
      <4> QED
        BY <2>1, <2>2, <2>4, <3>2, <4>1, <4>2
    <3>3. v.stored[key] = w.stored[key]
      BY <1>2, <3>1, <3>2
    <3> QED
      BY <1>2, <2>1, <2>2, <2>4, <3>3
  <2> QED
    BY <2>3, <2>4
<1>8. Housed(v)
  <2> SUFFICES ASSUME NEW s \in Session, v.session[s].status # "none"
               PROVE  v.core[v.session[s].core].status = "live"
    BY DEF Housed
  <2>1. /\ v.session[s] = w.session[s]
        /\ w.session[s].core = Null \/ ~Gone(w, w.session[s].core)
    BY <1>2 DEF NoSession
  <2>2. w.session[s].core \in Core
    BY <1>4, <2>1 DEF Sound, Parented, SessionMember
  <2>3. w.core[w.session[s].core].status = "live"
    BY <2>1 DEF Kept, Housed
  <2> QED
    BY <1>3, <2>1, <2>2, <2>3, SessionsAssumption
<1>9. Served(v)
  BY <1>3 DEF Kept, Served, ServedCore
<1> QED
  BY <1>5, <1>6, <1>7, <1>8, <1>9 DEF Kept, v

LEMMA WithSessionKept ==
  ASSUME NEW w, Sound(w), Kept(w), NEW k \in Core, w.core[k].status = "live",
         NEW s \in Session, NEW c \in Client
  PROVE  Kept(WithSession(w, k, s, c))
<1> DEFINE v == WithSession(w, k, s, c)
<1>1. w \in Worlds
  BY DEF Sound
<1>2. /\ v.core = w.core /\ v.stored = w.stored /\ v.nonStored = w.nonStored
      /\ v.session = [w.session EXCEPT ![s] = [status |-> "live", core |-> k, owner |-> c]]
  BY <1>1, WithSessionFields
<1>3. w.session \in [Session -> SessionMember]
  BY <1>1 DEF Worlds
<1> HIDE DEF v
<1>4. Keyed(v) /\ Unkeyed(v) /\ Found(v) /\ Served(v)
  BY <1>2 DEF Kept, Keyed, Unkeyed, Found, Served
<1>5. Housed(v)
  BY <1>2, <1>3 DEF Kept, Housed
<1> QED
  BY <1>4, <1>5 DEF Kept, v

LEMMA WithCoreKept ==
  ASSUME NEW w, Sound(w), Kept(w), NEW i \in Ids \cup {NewIdentity}, NEW m \in Method,
         NEW k \in Core, w.core[k].status = "none", i = NewIdentity \/ w.stored[<<i, m>>] = Null
  PROVE  Kept(WithCore(w, i, m, k))
<1> DEFINE v == WithCore(w, i, m, k)
           key == <<i, m>>
<1>1. w \in Worlds
  BY DEF Sound
<1>2. /\ v.core[k] = NewCore(i, m) /\ \A l \in Core \ {k} : v.core[l] = w.core[l]
      /\ v.session = w.session
  BY <1>1, WithCoreCores
<1>3. i = NewIdentity => v.stored = w.stored /\ v.nonStored = w.nonStored \cup {k}
  BY <1>1, WithCoreUnstored
<1>4. i # NewIdentity => /\ key \in Key /\ v.stored[key] = k
                         /\ \A ky \in Key \ {key} : v.stored[ky] = w.stored[ky]
                         /\ v.nonStored = w.nonStored
  <2> SUFFICES ASSUME i \in Ids
               PROVE  /\ key \in Key /\ v.stored[key] = k
                      /\ \A ky \in Key \ {key} : v.stored[ky] = w.stored[ky]
                      /\ v.nonStored = w.nonStored
    OBVIOUS
  <2> QED
    BY <1>1, WithCoreStored DEF Key
<1>5. /\ w.stored \in [Key -> Core \cup {Null}] /\ w.nonStored \subseteq Core
      /\ w.session \in [Session -> SessionMember] /\ w.core \in [Core -> CoreMember]
  BY <1>1 DEF Worlds
<1>6. /\ v.core[k].status = "live" /\ v.core[k].id = i /\ v.core[k].method = m
      /\ v.core[k].queue = <<>> /\ ~v.core[k].active
  BY <1>2, NewCoreFields
<1> HIDE DEF v
<1>7. Keyed(v)
  <2> SUFFICES ASSUME NEW ky \in Key, v.stored[ky] # Null
               PROVE  /\ v.core[v.stored[ky]].status = "live"
                      /\ ky = <<v.core[v.stored[ky]].id, v.core[v.stored[ky]].method>>
    BY DEF Keyed
  <2>1. CASE i # NewIdentity /\ ky = key
    BY <1>4, <1>6, <2>1
  <2>2. CASE i = NewIdentity \/ ky # key
    <3>1. v.stored[ky] = w.stored[ky]
      BY <1>3, <1>4, <2>2
    <3>2. /\ w.core[w.stored[ky]].status = "live"
          /\ ky = <<w.core[w.stored[ky]].id, w.core[w.stored[ky]].method>>
      BY <3>1 DEF Kept, Keyed
    <3>3. w.stored[ky] \in Core \ {k}
      BY <1>5, <3>1, <3>2
    <3> QED
      BY <1>2, <3>1, <3>2, <3>3
  <2> QED
    BY <2>1, <2>2
<1>8. Unkeyed(v)
  BY <1>2, <1>3, <1>4, <1>5, <1>6 DEF Kept, Unkeyed
<1>9. Found(v)
  <2> SUFFICES ASSUME NEW l \in Core, v.core[l].status = "live"
               PROVE  IF v.core[l].id = NewIdentity THEN l \in v.nonStored
                      ELSE /\ l \notin v.nonStored
                           /\ v.stored[<<v.core[l].id, v.core[l].method>>] = l
    BY DEF Found
  <2>1. CASE l = k
    <3>1. k \notin w.nonStored
      BY DEF Kept, Unkeyed
    <3> QED
      BY <1>3, <1>4, <1>6, <2>1, <3>1
  <2>2. CASE l # k
    <3>1. v.core[l] = w.core[l]
      BY <1>2, <2>2
    <3>2. IF w.core[l].id = NewIdentity THEN l \in w.nonStored
          ELSE l \notin w.nonStored /\ w.stored[<<w.core[l].id, w.core[l].method>>] = l
      BY <3>1 DEF Kept, Found
    <3>3. CASE w.core[l].id = NewIdentity
      BY <1>3, <1>4, <3>1, <3>2, <3>3
    <3>4. CASE w.core[l].id # NewIdentity
      <4>1. <<w.core[l].id, w.core[l].method>> \in Key
        BY <1>5, <3>4 DEF Key, CoreMember
      <4>2. i # NewIdentity => <<w.core[l].id, w.core[l].method>> # key
        BY <3>2, <3>4, SessionsAssumption
      <4> QED
        BY <1>3, <1>4, <2>2, <3>1, <3>2, <3>4, <4>1, <4>2
    <3> QED
      BY <3>3, <3>4
  <2> QED
    BY <2>1, <2>2
<1>10. Housed(v)
  <2> SUFFICES ASSUME NEW s \in Session, w.session[s].status # "none"
               PROVE  v.core[w.session[s].core].status = "live"
    BY <1>2 DEF Housed
  <2>1. w.session[s].core \in Core
    BY <1>5 DEF Sound, Parented, SessionMember
  <2>2. w.core[w.session[s].core].status = "live"
    BY DEF Kept, Housed
  <2> QED
    BY <1>2, <2>1, <2>2
<1>11. Served(v)
  BY <1>2, <1>6 DEF Kept, Served, ServedCore
<1> QED
  BY <1>7, <1>8, <1>9, <1>10, <1>11 DEF Kept, v

LEMMA CreatedKept ==
  ASSUME NEW w, Sound(w), Kept(w), NEW c \in Client,
         NEW i \in Ids \cup {NewIdentity}, NEW m \in Method, NEW v \in Created(w, c, i, m)
  PROVE  Kept(v)
<1>1. w \in Worlds
  BY DEF Sound
<1>2. CASE \E k \in Core, s \in Session :
             /\ w.core[k].status = "none"
             /\ i = NewIdentity \/ w.stored[<<i, m>>] = Null
             /\ v = WithSession(WithCore(w, i, m, k), k, s, c)
  <2>1. PICK k \in Core, s \in Session :
             /\ w.core[k].status = "none"
             /\ i = NewIdentity \/ w.stored[<<i, m>>] = Null
             /\ v = WithSession(WithCore(w, i, m, k), k, s, c)
    BY <1>2
  <2>2. Sound(WithCore(w, i, m, k)) /\ Kept(WithCore(w, i, m, k))
    BY <2>1, WithCoreSound, WithCoreKept
  <2>3. WithCore(w, i, m, k).core[k].status = "live"
    BY <1>1, WithCoreCores, NewCoreFields
  <2> QED
    BY <2>1, <2>2, <2>3, WithSessionKept
<1>3. CASE \E s \in Session : /\ i # NewIdentity /\ w.stored[<<i, m>>] \in Core
                              /\ v = WithSession(w, w.stored[<<i, m>>], s, c)
  <2>1. <<i, m>> \in Key
    BY <1>3 DEF Key
  <2>2. w.core[w.stored[<<i, m>>]].status = "live"
    BY <1>3, <2>1, SessionsAssumption DEF Kept, Keyed
  <2> QED
    BY <1>3, <2>2, WithSessionKept
<1> QED
  BY <1>1, <1>2, <1>3, CreatedIs

(* The requests: each is of a session of the core, except the one that the plug-in is at;
   and no session has two in a queue (see "again"). *)

ClaimedOf(k, r, sessions) ==
  \A j \in DOMAIN r.queue :
    \/ j = 1 /\ r.active
    \/ sessions[r.queue[j].from].status = "live" /\ sessions[r.queue[j].from].core = k

Claimed(w) == \A k \in Core : ClaimedOf(k, w.core[k], w.session)

SingleIn(q) == \A j, l \in DOMAIN q : q[j].from = q[l].from => j = l

Single(w) == \A k \in Core : SingleIn(w.core[k].queue)

Orderly(w) == Claimed(w) /\ Single(w)

LEMMA QueueElement ==
  ASSUME NEW r \in CoreMember, NEW j \in DOMAIN r.queue
  PROVE  r.queue[j] \in Request /\ r.queue[j].from \in Session /\ j \in Nat
<1>1. r.queue \in Seq(Request)
  BY DEF CoreMember
<1>2. j \in 1 .. Len(r.queue) /\ Len(r.queue) \in Nat
  BY <1>1, LenProperties
<1>3. r.queue[j] \in Request
  BY <1>1, <1>2, ElementOfSeq
<1> QED
  BY <1>2, <1>3 DEF Request

LEMMA DestroyUnusedOrderly ==
  ASSUME NEW w, Sound(w), Kept(w), Orderly(w)
  PROVE  Orderly(DestroyUnused(w))
<1> DEFINE v == DestroyUnused(w)
<1>1. w \in Worlds /\ w.core \in [Core -> CoreMember]
  BY DEF Sound, Worlds
<1>2. v.session = [s \in Session |->
           IF w.session[s].core # Null /\ Gone(w, w.session[s].core)
             THEN NoSession ELSE w.session[s]]
  BY <1>1, DestroyUnusedFields
<1>3. \A k \in Core : /\ Gone(w, k) => v.core[k].queue = <<>>
                      /\ ~Gone(w, k) => v.core[k] = w.core[k]
  BY UnusedIsGone DEF Kept
<1> HIDE DEF v
<1>4. Single(v)
  BY <1>3 DEF Orderly, Single, SingleIn
<1>5. Claimed(v)
  <2> SUFFICES ASSUME NEW k \in Core, NEW j \in DOMAIN v.core[k].queue,
                      ~(j = 1 /\ v.core[k].active)
               PROVE  /\ v.session[v.core[k].queue[j].from].status = "live"
                      /\ v.session[v.core[k].queue[j].from].core = k
    BY DEF Claimed, ClaimedOf
  <2>1. ~Gone(w, k) /\ v.core[k] = w.core[k]
    BY <1>3
  <2>2. w.core[k].queue[j].from \in Session
    BY <1>1, <2>1, QueueElement
  <2>3. /\ w.session[w.core[k].queue[j].from].status = "live"
        /\ w.session[w.core[k].queue[j].from].core = k
    BY <2>1 DEF Orderly, Claimed, ClaimedOf
  <2> QED
    BY <1>2, <2>1, <2>2, <2>3
<1> QED
  BY <1>4, <1>5 DEF Orderly, v

LEMMA WithSessionOrderly ==
  ASSUME NEW w, Sound(w), Orderly(w), NEW k \in Core,
         NEW s \in Session, w.session[s].status = "none", NEW c \in Client
  PROVE  Orderly(WithSession(w, k, s, c))
<1> DEFINE v == WithSession(w, k, s, c)
<1>1. w \in Worlds /\ w.core \in [Core -> CoreMember] /\ w.session \in [Session -> SessionMember]
  BY DEF Sound, Worlds
<1>2. /\ v.core = w.core
      /\ v.session = [w.session EXCEPT ![s] = [status |-> "live", core |-> k, owner |-> c]]
  BY <1>1, WithSessionFields
<1> HIDE DEF v
<1>3. Single(v)
  BY <1>2 DEF Orderly, Single
<1>4. Claimed(v)
  <2> SUFFICES ASSUME NEW l \in Core, NEW j \in DOMAIN w.core[l].queue,
                      ~(j = 1 /\ w.core[l].active)
               PROVE  /\ v.session[w.core[l].queue[j].from].status = "live"
                      /\ v.session[w.core[l].queue[j].from].core = l
    <3>1. v.core = w.core
      BY <1>2
    <3>2. \A l \in Core : ClaimedOf(l, w.core[l], v.session)
      BY DEF ClaimedOf
    <3> QED
      BY <3>1, <3>2 DEF Claimed
  <2>1. w.core[l].queue[j].from \in Session
    BY <1>1, QueueElement
  <2>2. /\ w.session[w.core[l].queue[j].from].status = "live"
        /\ w.session[w.core[l].queue[j].from].core = l
    BY DEF Orderly, Claimed, ClaimedOf
  <2> QED
    BY <1>1, <1>2, <2>1, <2>2
<1> QED
  BY <1>3, <1>4 DEF Orderly, v

LEMMA WithCoreOrderly ==
  ASSUME NEW w, Sound(w), Orderly(w), NEW i \in Ids \cup {NewIdentity}, NEW m \in Method,
         NEW k \in Core
  PROVE  Orderly(WithCore(w, i, m, k))
<1> DEFINE v == WithCore(w, i, m, k)
<1>1. w \in Worlds
  BY DEF Sound
<1>2. /\ v.core[k] = NewCore(i, m) /\ \A l \in Core \ {k} : v.core[l] = w.core[l]
      /\ v.session = w.session
  BY <1>1, WithCoreCores
<1> HIDE DEF v
<1>3. v.core[k].queue = <<>> /\ DOMAIN (v.core[k].queue) = {}
  <2>1. NewCore(i, m).queue = <<>>
    BY NewCoreFields
  <2> QED
    BY <1>2, <2>1
<1>4. Single(v)
  <2> SUFFICES ASSUME NEW l \in Core
               PROVE  SingleIn(v.core[l].queue)
    BY DEF Single
  <2> QED
    BY <1>2, <1>3 DEF Orderly, Single, SingleIn
<1>5. Claimed(v)
  <2> SUFFICES ASSUME NEW l \in Core
               PROVE  ClaimedOf(l, v.core[l], v.session)
    BY DEF Claimed
  <2>1. CASE l = k
    BY <1>3, <2>1 DEF ClaimedOf
  <2>2. CASE l # k
    BY <1>2, <2>2 DEF Orderly, Claimed
  <2> QED
    BY <2>1, <2>2
<1> QED
  BY <1>4, <1>5 DEF Orderly, v

LEMMA CreatedOrderly ==
  ASSUME NEW w, Sound(w), Orderly(w), NEW c \in Client,
         NEW i \in Ids \cup {NewIdentity}, NEW m \in Method, NEW v \in Created(w, c, i, m)
  PROVE  Orderly(v)
<1>1. w \in Worlds
  BY DEF Sound
<1>2. CASE \E k \in Core, s \in Session :
             /\ w.session[s].status = "none"
             /\ v = WithSession(WithCore(w, i, m, k), k, s, c)
  <2>1. PICK k \in Core, s \in Session :
             /\ w.session[s].status = "none"
             /\ v = WithSession(WithCore(w, i, m, k), k, s, c)
    BY <1>2
  <2>2. Sound(WithCore(w, i, m, k)) /\ Orderly(WithCore(w, i, m, k))
    BY WithCoreSound, WithCoreOrderly
  <2>3. WithCore(w, i, m, k).session[s].status = "none"
    BY <1>1, <2>1, WithCoreCores
  <2> QED
    BY <2>1, <2>2, <2>3, WithSessionOrderly
<1>3. CASE \E s \in Session : /\ w.session[s].status = "none" /\ w.stored[<<i, m>>] \in Core
                              /\ v = WithSession(w, w.stored[<<i, m>>], s, c)
  BY <1>3, WithSessionOrderly
<1> QED
  BY <1>1, <1>2, <1>3, CreatedIs

LEMMA AppendedOrderly ==
  ASSUME NEW k \in Core, NEW r \in CoreMember, NEW sessions, NEW e \in Request,
         SingleIn(r.queue), ClaimedOf(k, r, sessions),
         \A j \in DOMAIN r.queue : r.queue[j].from # e.from,
         sessions[e.from].status = "live", sessions[e.from].core = k,
         NEW v \in CoreMember, v.queue = Append(r.queue, e), v.active = r.active
  PROVE  SingleIn(v.queue) /\ ClaimedOf(k, v, sessions)
<1>1. r.queue \in Seq(Request)
  BY DEF CoreMember
<1>2. /\ DOMAIN r.queue = 1 .. Len(r.queue) /\ Len(r.queue) \in Nat
      /\ DOMAIN v.queue = 1 .. Len(r.queue) + 1
  BY <1>1, LenProperties, AppendProperties
<1>3. /\ \A j \in 1 .. Len(r.queue) : v.queue[j] = r.queue[j]
      /\ v.queue[Len(r.queue) + 1] = e
  BY <1>1, AppendProperties
<1>4. SingleIn(v.queue)
  BY <1>2, <1>3 DEF SingleIn
<1>5. ClaimedOf(k, v, sessions)
  <2> SUFFICES ASSUME NEW j \in DOMAIN v.queue
               PROVE  \/ j = 1 /\ v.active
                      \/ /\ sessions[v.queue[j].from].status = "live"
                         /\ sessions[v.queue[j].from].core = k
    BY DEF ClaimedOf
  <2>1. CASE j = Len(r.queue) + 1
    BY <1>3, <2>1
  <2>2. CASE j # Len(r.queue) + 1
    <3>1. j \in DOMAIN r.queue /\ v.queue[j] = r.queue[j]
      BY <1>2, <1>3, <2>2
    <3> QED
      BY <3>1 DEF ClaimedOf
  <2> QED
    BY <2>1, <2>2
<1> QED
  BY <1>4, <1>5

LEMMA TailOrderly ==
  ASSUME NEW k \in Core, NEW r \in CoreMember, NEW sessions,
         r.queue # <<>>, SingleIn(r.queue), ClaimedOf(k, r, sessions),
         NEW v \in CoreMember, v.queue = Tail(r.queue)
  PROVE  SingleIn(v.queue) /\ ClaimedOf(k, v, sessions)
<1>1. r.queue \in Seq(Request)
  BY DEF CoreMember
<1>2. /\ DOMAIN r.queue = 1 .. Len(r.queue) /\ Len(r.queue) \in Nat
      /\ DOMAIN v.queue = 1 .. Len(r.queue) - 1
      /\ \A j \in 1 .. Len(r.queue) - 1 : v.queue[j] = r.queue[j + 1]
  BY <1>1, LenProperties, HeadTailProperties
<1>3. \A j \in DOMAIN v.queue : /\ j + 1 \in DOMAIN r.queue /\ j + 1 # 1 /\ j \in Nat
                                /\ v.queue[j] = r.queue[j + 1]
  BY <1>2
<1>4. SingleIn(v.queue)
  <2> SUFFICES ASSUME NEW j \in DOMAIN v.queue, NEW l \in DOMAIN v.queue,
                      v.queue[j].from = v.queue[l].from
               PROVE  j = l
    BY DEF SingleIn
  <2>1. j + 1 = l + 1
    BY <1>3 DEF SingleIn
  <2> QED
    BY <1>3, <2>1
<1>5. ClaimedOf(k, v, sessions)
  BY <1>3 DEF ClaimedOf
<1> QED
  BY <1>4, <1>5

(* After cancel() nothing of the session waits. *)
LEMMA WithdrawnOrderly ==
  ASSUME NEW k \in Core, NEW r \in CoreMember, NEW sessions, NEW s \in Session,
         SingleIn(r.queue), ClaimedOf(k, r, sessions)
  PROVE  LET v == Withdrawn(r, s) IN
         /\ SingleIn(v.queue) /\ ClaimedOf(k, v, sessions)
         /\ \A j \in DOMAIN v.queue : v.queue[j].from = s => j = 1 /\ v.active
<1> DEFINE v == Withdrawn(r, s)
<1>1. r.queue \in Seq(Request)
  BY DEF CoreMember
<1>2. DOMAIN r.queue = 1 .. Len(r.queue) /\ Len(r.queue) \in Nat
  BY <1>1, LenProperties
<1>3. CASE /\ v = r
           /\ (\E j \in DOMAIN r.queue : r.queue[j].from = s)
                => r.active /\ 1 \in DOMAIN r.queue /\ r.queue[1].from = s
  <2> HIDE DEF v
  <2> QED
    BY <1>3 DEF v, SingleIn
<1>4. CASE \E n \in DOMAIN r.queue :
              /\ r.queue[n].from = s
              /\ n = 1 => ~r.active
              /\ Withdrawn(r, s) = [r EXCEPT !.queue = RemoveAt(r.queue, n)]
  <2>1. PICK n \in DOMAIN r.queue :
              /\ r.queue[n].from = s
              /\ n = 1 => ~r.active
              /\ v = [r EXCEPT !.queue = RemoveAt(r.queue, n)]
    BY <1>4
  <2> DEFINE q == RemoveAt(r.queue, n)
  <2>2. /\ q \in Seq(Request) /\ Len(q) = Len(r.queue) - 1
        /\ \A j \in 1 .. Len(r.queue) - 1 :
             q[j] = IF j < n THEN r.queue[j] ELSE r.queue[j + 1]
    BY <1>1, RemoveAtProperties
  <2>3. DOMAIN q = 1 .. Len(r.queue) - 1
    BY <2>2, LenProperties
  <2> HIDE DEF v, q
  <2>4. v.queue = q /\ v.active = r.active
    BY <2>1 DEF q, CoreMember
  <2> DEFINE at(j) == IF j < n THEN j ELSE j + 1
  <2>5. \A j \in DOMAIN q : /\ at(j) \in DOMAIN r.queue /\ at(j) # n
                            /\ q[j] = r.queue[at(j)]
                            /\ at(j) = 1 => j = 1
    BY <1>2, <2>2, <2>3
  <2>6. \A j, l \in DOMAIN q : at(j) = at(l) => j = l
    BY <1>2, <2>3
  <2> HIDE DEF at
  <2>7. SingleIn(q) /\ \A j \in DOMAIN q : q[j].from # s
    <3>1. \A j \in DOMAIN q : q[j].from # s
      BY <2>1, <2>5 DEF SingleIn
    <3>2. SingleIn(q)
      BY <2>5, <2>6 DEF SingleIn
    <3> QED
      BY <3>1, <3>2
  <2>8. ClaimedOf(k, v, sessions)
    BY <2>4, <2>5 DEF ClaimedOf
  <2> QED
    BY <2>4, <2>7, <2>8 DEF v
<1> QED
  BY <1>3, <1>4, WithdrawnIs

(* The words that wait are permitted by the lists of the identity (see "waiting" and "closed"). *)

PermittedOf(r, info) ==
  r.id # NewIdentity =>
    \A j \in DOMAIN r.queue : Permits(info[r.id], r.method, r.queue[j].words)

AllPermitted(w, info) == \A k \in Core : PermittedOf(w.core[k], info)

LEMMA DestroyUnusedPermitted ==
  ASSUME NEW w, Sound(w), NEW info, AllPermitted(w, info)
  PROVE  AllPermitted(DestroyUnused(w), info)
<1> DEFINE v == DestroyUnused(w)
<1>1. w \in Worlds /\ w.core \in [Core -> CoreMember]
  BY DEF Sound, Worlds
<1>2. \A k \in Core : v.core[k] = IF Unused(w, k) THEN Destroyed(w.core[k]) ELSE w.core[k]
  BY <1>1, DestroyUnusedCore
<1>3. \A r \in CoreMember : /\ Destroyed(r).queue = r.queue /\ Destroyed(r).id = r.id
                            /\ Destroyed(r).method = r.method
  BY DEF Destroyed, InUse, CoreMember
<1> HIDE DEF v
<1>4. ASSUME NEW k \in Core
      PROVE  PermittedOf(v.core[k], info)
  <2>1. /\ v.core[k].queue = w.core[k].queue /\ v.core[k].id = w.core[k].id
        /\ v.core[k].method = w.core[k].method
    BY <1>1, <1>2, <1>3
  <2>2. PermittedOf(w.core[k], info)
    BY DEF AllPermitted
  <2> QED
    BY <2>1, <2>2 DEF PermittedOf
<1> QED
  BY <1>4 DEF AllPermitted, v

LEMMA CreatedPermitted ==
  ASSUME NEW w, Sound(w), NEW info, AllPermitted(w, info), NEW c \in Client,
         NEW i \in Ids \cup {NewIdentity}, NEW m \in Method, NEW v \in Created(w, c, i, m)
  PROVE  AllPermitted(v, info)
<1>1. w \in Worlds
  BY DEF Sound
<1>2. CASE \E k \in Core, s \in Session : v = WithSession(WithCore(w, i, m, k), k, s, c)
  <2>1. PICK k \in Core, s \in Session : v = WithSession(WithCore(w, i, m, k), k, s, c)
    BY <1>2
  <2>2. WithCore(w, i, m, k) \in Worlds
    BY <1>1, WithCoreType
  <2> DEFINE u == WithCore(w, i, m, k)
  <2>3. v.core = u.core
    <3>0. u \in Worlds
      BY <2>2
    <3> HIDE DEF u
    <3>1. WithSession(u, k, s, c).core = u.core
      BY <3>0, WithSessionCores
    <3> QED
      BY <2>1, <3>1 DEF u
  <2>4. v.core[k] = NewCore(i, m) /\ \A l \in Core \ {k} : v.core[l] = w.core[l]
    BY <1>1, <2>3, WithCoreCores
  <2>5. DOMAIN v.core[k].queue = {}
    BY <2>4, NewCoreFields
  <2> QED
    BY <2>4, <2>5 DEF AllPermitted, PermittedOf
<1>3. CASE \E s \in Session : /\ w.stored[<<i, m>>] \in Core
                              /\ v = WithSession(w, w.stored[<<i, m>>], s, c)
  <2> DEFINE k == w.stored[<<i, m>>]
  <2>1. PICK s \in Session : k \in Core /\ v = WithSession(w, k, s, c)
    BY <1>3
  <2> HIDE DEF k
  <2>2. WithSession(w, k, s, c).core = w.core
    BY <1>1, <2>1, WithSessionCores
  <2> QED
    BY <2>1, <2>2 DEF AllPermitted
<1> QED
  BY <1>1, <1>2, <1>3, CreatedIs
-------------------------------------------------------------------------------
(* The registries: every action *)

LEMMA BecomeKept ==
  ASSUME NEW w, Become(w)
  PROVE  /\ Kept(w) => Kept(World)'
         /\ Orderly(w) => Orderly(World)'
<1>1. /\ World'.core = w.core /\ World'.stored = w.stored /\ World'.nonStored = w.nonStored
      /\ World'.session = w.session
  BY DEF World, Become
<1>2. Kept(w) => Kept(World')
  BY <1>1 DEF Kept, Keyed, Unkeyed, Found, Housed, Served
<1>3. Orderly(w) => Orderly(World')
  BY <1>1 DEF Orderly, Claimed, Single
<1> QED
  BY <1>2, <1>3

LEMMA WorldFieldsNext ==
  /\ World'.core = core' /\ World'.stored = stored' /\ World'.nonStored = nonStored'
  /\ World'.session = session'
BY DEF World

(* A core and what a handler makes of it, with the sessions it has *)
LEMMA CoreStepKept ==
  ASSUME TypeOK, Kept(World), NEW k \in Core, NEW r \in CoreMember, CoreBecomes(k, r),
         Same(r, core[k]), ServedCore(r),
         \A t \in Session : /\ session'[t].core = session[t].core
                            /\ session'[t].status = "none" <=> session[t].status = "none"
  PROVE  Kept(World)'
<1>1. /\ core' = [core EXCEPT ![k] = r] /\ stored' = stored /\ nonStored' = nonStored
      /\ core \in [Core -> CoreMember] /\ stored \in [Key -> Core \cup {Null}]
      /\ nonStored \subseteq Core
  BY DEF CoreBecomes, TypeOK
<1>2. \A l \in Core : Same(core'[l], core[l])
  BY <1>1 DEF Same
<1>3. Keyed(World')
  BY <1>1, <1>2, WorldFields, WorldFieldsNext DEF Kept, Keyed, Same
<1>4. Unkeyed(World')
  BY <1>1, <1>2, WorldFields, WorldFieldsNext DEF Kept, Unkeyed, Same
<1>5. Found(World')
  BY <1>1, <1>2, WorldFields, WorldFieldsNext DEF Kept, Found, Same
<1>6. Housed(World')
  <2> SUFFICES ASSUME NEW s \in Session, session'[s].status # "none"
               PROVE  core'[session'[s].core].status = "live"
    BY WorldFieldsNext DEF Housed
  <2>1. session'[s].core = session[s].core /\ session[s].status # "none"
    OBVIOUS
  <2>2. session[s].core \in Core
    BY <2>1, CalledCore
  <2>3. core[session[s].core].status = "live"
    BY <2>1, WorldFields DEF Kept, Housed
  <2> QED
    BY <1>2, <2>1, <2>2, <2>3 DEF Same
<1>7. Served(World')
  BY <1>1, WorldFields, WorldFieldsNext DEF Kept, Served
<1> QED
  BY <1>3, <1>4, <1>5, <1>6, <1>7 DEF Kept

LEMMA KeptIs ==
  ASSUME TypeOK, Kept(World)
  PROVE  /\ \A key \in Key : stored[key] # Null =>
              /\ core[stored[key]].status = "live"
              /\ key = <<core[stored[key]].id, core[stored[key]].method>>
         /\ \A k \in nonStored : core[k].status = "live"
         /\ \A k \in Core : core[k].status = "live" =>
              IF core[k].id = NewIdentity THEN k \in nonStored
              ELSE k \notin nonStored /\ stored[<<core[k].id, core[k].method>>] = k
         /\ \A s \in Session : session[s].status # "none" =>
              session[s].core \in Core /\ core[session[s].core].status = "live"
         /\ \A k \in Core : ServedCore(core[k])
<1>1. \A s \in Session : session[s].status # "none" => session[s].core \in Core
  BY CalledCore
<1> QED
  BY <1>1, WorldFields DEF Kept, Keyed, Unkeyed, Found, Housed, Served

LEMMA NextKept ==
  ASSUME TypeOK, Kept(World), "reassign" \notin interference, Next
  PROVE  Kept(World)'
<1>0. Sound(World)
  BY WorldIsSound
<1>1. ASSUME NEW c \in Client, NEW i \in Ids \cup {NewIdentity}, NEW m \in Method,
             GetAuthSession(c, i, m)
      PROVE  Kept(World)'
  <2>1. PICK w \in Created(DestroyUnused(World), c, i, m) : Become(w)
    BY <1>1 DEF GetAuthSession
  <2>2. Kept(w)
    BY <1>0, <2>1, DestroyUnusedSound, DestroyUnusedKept, CreatedKept
  <2> QED
    BY <2>1, <2>2, BecomeKept
<1>2. ASSUME NEW c \in Client, NEW i \in Ids \cup {NewIdentity}, NEW m \in Method,
             RequestAccess(c, i, m)
      PROVE  Kept(World)'
  BY <1>0, <1>2, DestroyUnusedKept, BecomeKept DEF RequestAccess
<1>3. ASSUME NEW c \in Client, Declined(c)
      PROVE  Kept(World)'
  BY <1>3, BecomeKept DEF Declined
<1>4. ASSUME NEW c \in Client, Accepted(c)
      PROVE  Kept(World)'
  <2> DEFINE i == request[c][1]
             m == request[c][2]
  <2>1. request[c] \in Key /\ i \in Ids /\ m \in Method
    BY <1>4 DEF Accepted, TypeOK, Key
  <2>2. PICK w \in Created(World, c, i, m) : Become(Replied(w))
    BY <1>4 DEF Accepted
  <2> HIDE DEF i, m
  <2>3. Kept(Replied(w))
    BY <1>0, <2>1, <2>2, CreatedSound, CreatedKept, DestroyUnusedKept DEF Replied
  <2> QED
    BY <2>2, <2>3, BecomeKept
<1>5. ASSUME NEW c \in Client, NEW s \in Session, NEW words \in (SUBSET Word) \ {{}},
             Process(c, s, words)
      PROVE  Kept(World)'
  <2> DEFINE k == session[s].core
  <2>1. PICK r \in CoreMember :
              /\ CoreBecomes(k, r) /\ Same(r, core[k])
              /\ r.active = core[k].active /\ r.autoDestruct = core[k].autoDestruct /\ ~r.idle
              /\ \/ r.queue = core[k].queue /\ r.posted = core[k].posted
                 \/ /\ r.posted /\ Len(core[k].queue) < MaxQueue
                    /\ \E g \in (SUBSET Word) \ {{}} :
                         /\ r.queue = Append(core[k].queue, [from |-> s, words |-> g])
                         /\ core[k].id # NewIdentity /\ "closed" \notin interference
                              => Permits(lists[core[k].id], core[k].method, g)
    BY <1>5, ProcessIs
  <2>2. k \in Core /\ UNCHANGED session /\ session[s].status = "live"
    BY <1>5, ProcessIs
  <2>3. core[k].status = "live" /\ ServedCore(core[k])
    BY <2>2, KeptIs
  <2>4. ServedCore(r)
    <3>1. r.status = "live"
      BY <2>1, <2>3 DEF Same
    <3>2. (r.queue = core[k].queue /\ r.posted = core[k].posted) \/ r.posted
      BY <2>1
    <3> QED
      BY <2>1, <2>3, <3>1, <3>2 DEF ServedCore
  <2> QED
    BY <2>1, <2>2, <2>4, CoreStepKept
<1>6. ASSUME NEW c \in Client, NEW s \in Session, Cancel(c, s) \/ ObjectUnref(c, s)
      PROVE  Kept(World)'
  <2> DEFINE k == session[s].core
             r == Withdrawn(core[k], s)
  <2>1. /\ k \in Core /\ session[s].status = "live" /\ r \in CoreMember /\ CoreBecomes(k, r)
        /\ UNCHANGED session \/ session' = [session EXCEPT ![s].status = "doomed"]
    BY <1>6, CancelIs
  <2>2. core[k] \in CoreMember /\ ServedCore(core[k])
    BY <2>1, KeptIs DEF TypeOK
  <2>3. Same(r, core[k]) /\ ServedCore(r)
    <3>1. CASE r = core[k]
      BY <2>2, <3>1 DEF Same
    <3>2. CASE \E n \in DOMAIN core[k].queue :
                 r = [core[k] EXCEPT !.queue = RemoveAt(core[k].queue, n)]
      <4>1. PICK n \in DOMAIN core[k].queue :
                   r = [core[k] EXCEPT !.queue = RemoveAt(core[k].queue, n)]
        BY <3>2
      <4>2. core[k].queue # <<>>
        OBVIOUS
      <4> HIDE DEF r, k
      <4>3. /\ r.status = core[k].status /\ r.id = core[k].id /\ r.method = core[k].method
            /\ r.active = core[k].active /\ r.posted = core[k].posted /\ r.idle = core[k].idle
            /\ r.autoDestruct = core[k].autoDestruct
        BY <2>2, <4>1 DEF CoreMember
      <4> QED
        BY <2>2, <4>2, <4>3 DEF Same, ServedCore
    <3> QED
      BY <2>1, <2>2, <3>1, <3>2, WithdrawnIs
  <2>4. \A t \in Session : /\ session'[t].core = session[t].core
                           /\ session'[t].status = "none" <=> session[t].status = "none"
    <3>1. session \in [Session -> SessionMember]
      BY DEF TypeOK
    <3>2. CASE UNCHANGED session
      BY <3>2
    <3>3. CASE session' = [session EXCEPT ![s].status = "doomed"]
      BY <2>1, <3>1, <3>3 DEF SessionMember
    <3> QED
      BY <2>1, <3>2, <3>3
  <2> HIDE DEF r, k
  <2> QED
    BY <2>1, <2>3, <2>4, CoreStepKept
<1>7. ASSUME NEW c \in Client, NEW s \in Session, NEW i \in Ids, SetId(c, s, i)
      PROVE  Kept(World)'
  <2> DEFINE k == session[s].core
             m == core[k].method
  <2>1. PICK r \in CoreMember :
              /\ core' = [core EXCEPT ![k] = r]
              /\ r.status = core[k].status /\ r.method = core[k].method
              /\ r.active = core[k].active /\ r.autoDestruct = core[k].autoDestruct
              /\ r.queue = core[k].queue /\ r.posted = core[k].posted /\ ~r.idle
              /\ \/ r.id = core[k].id /\ UNCHANGED <<stored, nonStored>>
                 \/ /\ r.id = i /\ i # core[k].id
                    /\ stored[<<i, core[k].method>>] = Null
                    /\ nonStored' = nonStored \ {k}
                    /\ stored' = [stored EXCEPT ![<<i, core[k].method>>] = k]
    BY <1>7, SetIdIs
  <2>2. /\ k \in Core /\ session[s].status = "live" /\ UNCHANGED <<session, lists, request>>
        /\ opened' = Null
    BY <1>7, SetIdIs
  <2>7. i = core[k].id \/ core[k].id = NewIdentity
    BY <1>7 DEF SetId
  <2>3. /\ core[k].status = "live" /\ ServedCore(core[k])
        /\ core \in [Core -> CoreMember] /\ stored \in [Key -> Core \cup {Null}]
        /\ nonStored \subseteq Core
    BY <2>2, KeptIs DEF TypeOK
  <2>4. ServedCore(r)
    BY <2>1, <2>3 DEF ServedCore
  <2>5. CASE r.id = core[k].id /\ UNCHANGED <<stored, nonStored>>
    <3>1. CoreBecomes(k, r) /\ Same(r, core[k])
      BY <2>1, <2>2, <2>5 DEF CoreBecomes, Same
    <3> QED
      BY <2>2, <2>4, <3>1, CoreStepKept
  <2>6. CASE /\ r.id = i /\ i # core[k].id
             /\ stored[<<i, m>>] = Null
             /\ nonStored' = nonStored \ {k}
             /\ stored' = [stored EXCEPT ![<<i, m>>] = k]
    <3> HIDE DEF k
    <3>1. /\ core[k].id = NewIdentity /\ <<i, m>> \in Key /\ i # NewIdentity
      BY <2>2, <2>3, <2>6, <2>7, SessionsAssumption DEF Key, CoreMember
    <3>2. \A key \in Key : stored[key] # k
      BY <2>2, <3>1, KeptIs, SessionsAssumption DEF Key
    <3> HIDE DEF m
    <3>3. r.method = m
      BY <2>1 DEF m
    <3>4. /\ core'[k] = r /\ \A l \in Core \ {k} : core'[l] = core[l]
          /\ stored'[<<i, m>>] = k /\ \A key \in Key \ {<<i, m>>} : stored'[key] = stored[key]
      BY <2>1, <2>2, <2>3, <2>6, <3>1
    <3>5. Keyed(World')
      <4> SUFFICES ASSUME NEW key \in Key, stored'[key] # Null
                   PROVE  /\ core'[stored'[key]].status = "live"
                          /\ key = <<core'[stored'[key]].id, core'[stored'[key]].method>>
        BY WorldFieldsNext DEF Keyed
      <4>1. CASE key = <<i, m>>
        BY <2>1, <2>3, <2>6, <3>3, <3>4, <4>1
      <4>2. CASE key # <<i, m>>
        <5>1. stored'[key] = stored[key] /\ stored[key] \in Core \ {k}
          BY <2>3, <3>2, <3>4, <4>2
        <5> QED
          BY <3>4, <5>1, KeptIs
      <4> QED
        BY <4>1, <4>2
    <3>6. Unkeyed(World')
      <4>1. \A l \in nonStored' : l # k /\ l \in nonStored /\ l \in Core
        BY <2>3, <2>6
      <4> QED
        BY <3>4, <4>1, KeptIs, WorldFieldsNext DEF Unkeyed
    <3>7. Found(World')
      <4> SUFFICES ASSUME NEW l \in Core, core'[l].status = "live"
                   PROVE  IF core'[l].id = NewIdentity THEN l \in nonStored'
                          ELSE /\ l \notin nonStored'
                               /\ stored'[<<core'[l].id, core'[l].method>>] = l
        BY WorldFieldsNext DEF Found
      <4>1. CASE l = k
        BY <2>6, <3>1, <3>3, <3>4, <4>1
      <4>2. CASE l # k
        <5>1. core'[l] = core[l] /\ core[l] \in CoreMember
          BY <2>3, <3>4, <4>2
        <5>2. IF core[l].id = NewIdentity THEN l \in nonStored
              ELSE l \notin nonStored /\ stored[<<core[l].id, core[l].method>>] = l
          BY <5>1, KeptIs
        <5>3. CASE core[l].id = NewIdentity
          BY <2>6, <4>2, <5>1, <5>2, <5>3
        <5>4. CASE core[l].id # NewIdentity
          <6>1. <<core[l].id, core[l].method>> \in Key
            BY <5>1, <5>4 DEF Key, CoreMember
          <6>2. <<core[l].id, core[l].method>> # <<i, m>>
            BY <2>6, <5>2, <5>4, SessionsAssumption
          <6> QED
            BY <2>6, <3>4, <5>1, <5>2, <5>4, <6>1, <6>2
        <5> QED
          BY <5>3, <5>4
      <4> QED
        BY <4>1, <4>2
    <3>8. Housed(World')
      BY <2>1, <2>2, <2>3, <3>4, KeptIs, WorldFieldsNext DEF Housed
    <3>9. Served(World')
      BY <2>4, <3>4, KeptIs, WorldFieldsNext DEF Served
    <3> QED
      BY <3>5, <3>6, <3>7, <3>8, <3>9 DEF Kept
  <2> QED
    BY <2>1, <2>5, <2>6
<1>8. ASSUME NEW c \in Client, NEW i \in Ids, NEW l \in Infos, StoreLists(c, i, l)
      PROVE  Kept(World)'
  BY <1>8, WorldFields, WorldFieldsNext
     DEF StoreLists, Kept, Keyed, Unkeyed, Found, Housed, Served
<1>9. ASSUME NEW k \in Core, StartNewRequest(k)
      PROVE  Kept(World)'
  <2>1. PICK r \in CoreMember :
              /\ CoreBecomes(k, r) /\ Same(r, core[k]) /\ r.queue = core[k].queue
              /\ r.active = (core[k].active \/ core[k].queue # <<>>)
              /\ core[k].queue # <<>> /\ ~core[k].active => ~r.autoDestruct
              /\ core[k].queue # <<>> /\ core[k].active => r.autoDestruct = core[k].autoDestruct
    BY <1>9, StartNewRequestIs
  <2>2. UNCHANGED session /\ ServedCore(core[k]) /\ (core[k].active => core[k].queue # <<>>)
    BY <1>9, StartNewRequestIs, KeptIs DEF TypeOK
  <2>3. ServedCore(r)
    BY <2>1, <2>2 DEF ServedCore, Same
  <2> QED
    BY <2>1, <2>2, <2>3, CoreStepKept
<1>10. ASSUME NEW k \in Core, RequestDone(k)
       PROVE  Kept(World)'
  <2>1. PICK r \in CoreMember :
              /\ CoreBecomes(k, r) /\ Same(r, core[k])
              /\ ~r.active /\ r.posted /\ r.autoDestruct = core[k].autoDestruct
              /\ r.queue = Tail(core[k].queue)
    BY <1>10, RequestDoneIs
  <2>2. UNCHANGED session /\ core[k].active /\ core[k].queue # <<>> /\ ServedCore(core[k])
    BY <1>10, RequestDoneIs, KeptIs DEF TypeOK
  <2>3. ServedCore(r)
    BY <2>1, <2>2 DEF ServedCore, Same
  <2> QED
    BY <2>1, <2>2, <2>3, CoreStepKept
<1>11. ASSUME NEW k \in Core, Inactive(k)
       PROVE  Kept(World)'
  <2>1. PICK r \in CoreMember :
              /\ CoreBecomes(k, r) /\ Same(r, core[k])
              /\ r.active = core[k].active /\ r.autoDestruct = core[k].autoDestruct
              /\ r.queue = core[k].queue /\ r.posted = core[k].posted
    BY <1>11, InactiveIs
  <2>2. UNCHANGED session /\ ~core[k].posted /\ ServedCore(core[k])
    BY <1>11, InactiveIs, KeptIs
  <2>3. ServedCore(r)
    BY <2>1, <2>2 DEF ServedCore, Same
  <2> QED
    BY <2>1, <2>2, <2>3, CoreStepKept
<1>12. ASSUME NEW k \in Core, DeleteCore(k)
       PROVE  Kept(World)'
  <2>1. /\ core[k].status = "doomed" /\ core' = [core EXCEPT ![k] = NoCore]
        /\ session' = [s \in Session |-> IF session[s].core = k THEN NoSession ELSE session[s]]
        /\ UNCHANGED <<stored, nonStored>>
        /\ core \in [Core -> CoreMember] /\ stored \in [Key -> Core \cup {Null}]
        /\ nonStored \subseteq Core
    BY <1>12 DEF DeleteCore, TypeOK
  <2>2. /\ NoCore.status = "none" /\ NoCore.queue = <<>> /\ NoCore.active = FALSE
    BY DEF NoCore
  <2>3. /\ core'[k] = NoCore /\ \A l \in Core \ {k} : core'[l] = core[l]
    BY <2>1
  <2>4. Keyed(World')
    BY <2>1, <2>3, KeptIs, WorldFieldsNext DEF Keyed
  <2>5. Unkeyed(World')
    BY <2>1, <2>3, KeptIs, WorldFieldsNext DEF Unkeyed
  <2>6. Found(World')
    BY <2>1, <2>2, <2>3, KeptIs, WorldFieldsNext DEF Found
  <2>7. Housed(World')
    BY <2>1, <2>3, KeptIs, WorldFieldsNext DEF Housed, NoSession
  <2>8. Served(World')
    BY <2>2, <2>3, KeptIs, WorldFieldsNext DEF Served, ServedCore
  <2> QED
    BY <2>4, <2>5, <2>6, <2>7, <2>8 DEF Kept
<1>13. ASSUME NEW s \in Session, Query(s)
       PROVE  Kept(World)'
  <2> DEFINE k == session[s].core
             r == InUse(core[k])
  <2>1. k \in Core /\ r \in CoreMember /\ CoreBecomes(k, r) /\ UNCHANGED session
    BY <1>13, QueryIs
  <2>2. core[k] \in CoreMember /\ ServedCore(core[k])
    BY <2>1, KeptIs DEF TypeOK
  <2>3. /\ Same(r, core[k]) /\ r.queue = core[k].queue /\ r.active = core[k].active
        /\ r.posted = core[k].posted /\ r.autoDestruct = core[k].autoDestruct /\ r.idle = FALSE
    BY <2>2, InUseIs
  <2> HIDE DEF r
  <2>4. ServedCore(r)
    BY <2>2, <2>3 DEF ServedCore, Same
  <2> QED
    BY <2>1, <2>3, <2>4, CoreStepKept
<1>14. ASSUME NEW s \in Session, DeleteSession(s)
       PROVE  Kept(World)'
  <2>1. /\ session' = [session EXCEPT ![s] = NoSession] /\ UNCHANGED <<core, stored, nonStored>>
        /\ session \in [Session -> SessionMember]
    BY <1>14 DEF DeleteSession, TypeOK
  <2>2. Housed(World')
    BY <2>1, KeptIs, WorldFieldsNext DEF Housed, NoSession
  <2> QED
    BY <2>1, <2>2, WorldFields, WorldFieldsNext DEF Kept, Keyed, Unkeyed, Found, Served
<1>15. CASE DisposeTimer
  BY <1>0, <1>15, DestroyUnusedKept, BecomeKept DEF DisposeTimer
<1>16. CASE StopAll
  <2>1. /\ NoCore.status = "none" /\ NoCore.queue = <<>> /\ NoCore.active = FALSE
        /\ NoSession.status = "none"
    BY DEF NoCore, NoSession
  <2> QED
    BY <1>16, <2>1, WorldFieldsNext
       DEF StopAll, Kept, Keyed, Unkeyed, Found, Housed, Served, ServedCore
<1> QED
  BY <1>1, <1>2, <1>3, <1>4, <1>5, <1>6, <1>7, <1>8, <1>9, <1>10, <1>11, <1>12, <1>13, <1>14,
     <1>15, <1>16 DEF Next
-------------------------------------------------------------------------------
(* The requests: every action *)

LEMMA CoreStepOrderly ==
  ASSUME TypeOK, Orderly(World), NEW k \in Core, NEW r \in CoreMember, CoreBecomes(k, r),
         SingleIn(r.queue), ClaimedOf(k, r, session'),
         \A t \in Session : session'[t] = session[t] \/ session[t].core = k
  PROVE  Orderly(World)'
<1>1. core' = [core EXCEPT ![k] = r] /\ core \in [Core -> CoreMember]
  BY DEF CoreBecomes, TypeOK
<1>2. Single(World')
  BY <1>1, WorldFields, WorldFieldsNext DEF Orderly, Single
<1>3. Claimed(World')
  <2> SUFFICES ASSUME NEW l \in Core
               PROVE  ClaimedOf(l, core'[l], session')
    BY WorldFieldsNext DEF Claimed
  <2>1. CASE l = k
    BY <1>1, <2>1
  <2>2. CASE l # k
    <3>1. core'[l] = core[l] /\ core[l] \in CoreMember /\ ClaimedOf(l, core[l], session)
      BY <1>1, <2>2, WorldFields DEF Orderly, Claimed
    <3>2. \A j \in DOMAIN core[l].queue : core[l].queue[j].from \in Session
      BY <3>1, QueueElement
    <3> QED
      BY <2>2, <3>1, <3>2 DEF ClaimedOf
  <2> QED
    BY <2>1, <2>2
<1> QED
  BY <1>2, <1>3 DEF Orderly

(* The same when the queue stays as it is *)
LEMMA SameQueueOrderly ==
  ASSUME TypeOK, Orderly(World), NEW k \in Core, NEW r \in CoreMember, CoreBecomes(k, r),
         r.queue = core[k].queue, core[k].active => r.active, UNCHANGED session
  PROVE  Orderly(World)'
<1>1. SingleIn(core[k].queue) /\ ClaimedOf(k, core[k], session)
  BY WorldFields DEF Orderly, Single, Claimed
<1>2. SingleIn(r.queue) /\ ClaimedOf(k, r, session')
  BY <1>1 DEF ClaimedOf
<1> QED
  BY <1>2, CoreStepOrderly

LEMMA NextOrderly ==
  ASSUME TypeOK, Kept(World), Orderly(World),
         "reassign" \notin interference, "again" \notin interference, Next
  PROVE  Orderly(World)'
<1>0. /\ Sound(World)
      /\ \A k \in Core : core[k] \in CoreMember
                         /\ SingleIn(core[k].queue) /\ ClaimedOf(k, core[k], session)
  BY WorldIsSound, WorldFields DEF Orderly, Single, Claimed, TypeOK
<1>1. ASSUME NEW c \in Client, NEW i \in Ids \cup {NewIdentity}, NEW m \in Method,
             GetAuthSession(c, i, m)
      PROVE  Orderly(World)'
  <2>1. PICK w \in Created(DestroyUnused(World), c, i, m) : Become(w)
    BY <1>1 DEF GetAuthSession
  <2>2. Orderly(w)
    BY <1>0, <2>1, DestroyUnusedSound, DestroyUnusedOrderly, CreatedOrderly
  <2> QED
    BY <2>1, <2>2, BecomeKept
<1>2. ASSUME NEW c \in Client, NEW i \in Ids \cup {NewIdentity}, NEW m \in Method,
             RequestAccess(c, i, m)
      PROVE  Orderly(World)'
  BY <1>0, <1>2, DestroyUnusedOrderly, BecomeKept DEF RequestAccess
<1>3. ASSUME NEW c \in Client, Declined(c)
      PROVE  Orderly(World)'
  BY <1>3, BecomeKept DEF Declined
<1>4. ASSUME NEW c \in Client, Accepted(c)
      PROVE  Orderly(World)'
  <2> DEFINE i == request[c][1]
             m == request[c][2]
  <2>1. request[c] \in Key /\ i \in Ids /\ m \in Method
    BY <1>4 DEF Accepted, TypeOK, Key
  <2>2. PICK w \in Created(World, c, i, m) : Become(Replied(w))
    BY <1>4 DEF Accepted
  <2> HIDE DEF i, m
  <2>3. Orderly(Replied(w))
    BY <1>0, <2>1, <2>2, CreatedSound, CreatedKept, CreatedOrderly, DestroyUnusedOrderly
       DEF Replied
  <2> QED
    BY <2>2, <2>3, BecomeKept
<1>5. ASSUME NEW c \in Client, NEW s \in Session, NEW words \in (SUBSET Word) \ {{}},
             Process(c, s, words)
      PROVE  Orderly(World)'
  <2> DEFINE k == session[s].core
  <2>1. PICK r \in CoreMember :
              /\ CoreBecomes(k, r) /\ Same(r, core[k])
              /\ r.active = core[k].active /\ r.autoDestruct = core[k].autoDestruct /\ ~r.idle
              /\ \/ r.queue = core[k].queue /\ r.posted = core[k].posted
                 \/ /\ r.posted /\ Len(core[k].queue) < MaxQueue
                    /\ \E g \in (SUBSET Word) \ {{}} :
                         /\ r.queue = Append(core[k].queue, [from |-> s, words |-> g])
                         /\ core[k].id # NewIdentity /\ "closed" \notin interference
                              => Permits(lists[core[k].id], core[k].method, g)
    BY <1>5, ProcessIs
  <2>2. /\ k \in Core /\ UNCHANGED session /\ session[s].status = "live"
        /\ ~Open(s)
    BY <1>5, ProcessIs
  <2>3. CASE r.queue = core[k].queue
    BY <2>1, <2>2, <2>3, SameQueueOrderly
  <2>4. CASE \E g \in (SUBSET Word) \ {{}} :
               r.queue = Append(core[k].queue, [from |-> s, words |-> g])
    <3>1. PICK e \in Request : e.from = s /\ r.queue = Append(core[k].queue, e)
      BY <2>4 DEF Request
    <3>2. \A j \in DOMAIN core[k].queue : core[k].queue[j].from # e.from
      BY <2>2, <3>1 DEF Open
    <3>3. SingleIn(r.queue) /\ ClaimedOf(k, r, session)
      BY <1>0, <2>1, <2>2, <3>1, <3>2, AppendedOrderly
    <3> QED
      BY <2>1, <2>2, <3>3, CoreStepOrderly
  <2> QED
    BY <2>1, <2>3, <2>4
<1>6. ASSUME NEW c \in Client, NEW s \in Session, Cancel(c, s) \/ ObjectUnref(c, s)
      PROVE  Orderly(World)'
  <2> DEFINE k == session[s].core
             r == Withdrawn(core[k], s)
  <2>1. /\ k \in Core /\ session[s].status = "live" /\ r \in CoreMember /\ CoreBecomes(k, r)
        /\ UNCHANGED session \/ session' = [session EXCEPT ![s].status = "doomed"]
    BY <1>6, CancelIs
  <2>2. /\ SingleIn(r.queue) /\ ClaimedOf(k, r, session)
        /\ \A j \in DOMAIN r.queue : r.queue[j].from = s => j = 1 /\ r.active
    BY <1>0, <2>1, WithdrawnOrderly
  <2>3. \A t \in Session : t # s => session'[t] = session[t]
    BY <2>1 DEF TypeOK
  <2> HIDE DEF r
  <2>4. \A j \in DOMAIN r.queue : r.queue[j].from \in Session
    BY <2>1, QueueElement
  <2>5. ClaimedOf(k, r, session')
    BY <2>2, <2>3, <2>4 DEF ClaimedOf
  <2>6. \A t \in Session : session'[t] = session[t] \/ session[t].core = k
    BY <2>3
  <2> HIDE DEF k
  <2> QED
    BY <2>1, <2>2, <2>5, <2>6, CoreStepOrderly
<1>7. ASSUME NEW c \in Client, NEW s \in Session, NEW i \in Ids, SetId(c, s, i)
      PROVE  Orderly(World)'
  <2> DEFINE k == session[s].core
  <2>1. PICK r \in CoreMember :
              /\ core' = [core EXCEPT ![k] = r]
              /\ r.active = core[k].active /\ r.queue = core[k].queue
              /\ \/ UNCHANGED <<stored, nonStored>>
                 \/ /\ nonStored' = nonStored \ {k}
                    /\ stored' = [stored EXCEPT ![<<i, core[k].method>>] = k]
    BY <1>7, SetIdIs
  <2>2. k \in Core /\ session' = session /\ core \in [Core -> CoreMember]
    BY <1>7, SetIdIs DEF TypeOK
  <2>3. \A l \in Core : core'[l].active = core[l].active /\ core'[l].queue = core[l].queue
    BY <2>1, <2>2
  <2>4. \A l \in Core : SingleIn(core'[l].queue)
    BY <1>0, <2>3
  <2>5. \A l \in Core : ClaimedOf(l, core'[l], session')
    BY <1>0, <2>2, <2>3 DEF ClaimedOf
  <2> QED
    BY <2>4, <2>5, WorldFieldsNext DEF Orderly, Single, Claimed
<1>8. ASSUME NEW c \in Client, NEW i \in Ids, NEW l \in Infos, StoreLists(c, i, l)
      PROVE  Orderly(World)'
  BY <1>8, WorldFields, WorldFieldsNext DEF StoreLists, Orderly, Single, Claimed
<1>9. ASSUME NEW k \in Core, StartNewRequest(k)
      PROVE  Orderly(World)'
  <2>1. PICK r \in CoreMember : CoreBecomes(k, r) /\ r.queue = core[k].queue
                                /\ r.active = (core[k].active \/ core[k].queue # <<>>)
    BY <1>9, StartNewRequestIs
  <2>2. UNCHANGED session
    BY <1>9, StartNewRequestIs
  <2> QED
    BY <2>1, <2>2, SameQueueOrderly
<1>10. ASSUME NEW k \in Core, RequestDone(k)
       PROVE  Orderly(World)'
  <2>1. PICK r \in CoreMember : CoreBecomes(k, r) /\ r.queue = Tail(core[k].queue) /\ ~r.active
    BY <1>10, RequestDoneIs
  <2>2. UNCHANGED session /\ core[k].queue # <<>>
    BY <1>10, RequestDoneIs DEF TypeOK
  <2>3. SingleIn(r.queue) /\ ClaimedOf(k, r, session)
    BY <1>0, <2>1, <2>2, TailOrderly
  <2> QED
    BY <2>1, <2>2, <2>3, CoreStepOrderly
<1>11. ASSUME NEW k \in Core, Inactive(k)
       PROVE  Orderly(World)'
  <2>1. PICK r \in CoreMember : CoreBecomes(k, r) /\ r.queue = core[k].queue
                                /\ r.active = core[k].active
    BY <1>11, InactiveIs
  <2>2. UNCHANGED session
    BY <1>11, InactiveIs
  <2> QED
    BY <2>1, <2>2, SameQueueOrderly
<1>12. ASSUME NEW k \in Core, DeleteCore(k)
       PROVE  Orderly(World)'
  <2>1. /\ core' = [core EXCEPT ![k] = NoCore]
        /\ session' = [s \in Session |-> IF session[s].core = k THEN NoSession ELSE session[s]]
        /\ core \in [Core -> CoreMember]
    BY <1>12 DEF DeleteCore, TypeOK
  <2>2. DOMAIN NoCore.queue = {}
    BY DEF NoCore
  <2>3. /\ core'[k] = NoCore /\ \A l \in Core \ {k} : core'[l] = core[l]
    BY <2>1
  <2>4. Single(World')
    BY <1>0, <2>2, <2>3, WorldFieldsNext DEF Single, SingleIn
  <2>5. Claimed(World')
    <3> SUFFICES ASSUME NEW l \in Core
                 PROVE  ClaimedOf(l, core'[l], session')
      BY WorldFieldsNext DEF Claimed
    <3>1. CASE l = k
      BY <2>2, <2>3, <3>1 DEF ClaimedOf
    <3>2. CASE l # k
      <4>1. \A j \in DOMAIN core[l].queue : core[l].queue[j].from \in Session
        BY <1>0, QueueElement
      <4> QED
        BY <1>0, <2>1, <2>3, <3>2, <4>1 DEF ClaimedOf
    <3> QED
      BY <3>1, <3>2
  <2> QED
    BY <2>4, <2>5 DEF Orderly
<1>13. ASSUME NEW s \in Session, Query(s)
       PROVE  Orderly(World)'
  <2> DEFINE k == session[s].core
             r == InUse(core[k])
  <2>1. k \in Core /\ r \in CoreMember /\ CoreBecomes(k, r) /\ UNCHANGED session
    BY <1>13, QueryIs
  <2>2. r.queue = core[k].queue /\ r.active = core[k].active
    BY <1>0, <2>1, InUseIs
  <2> HIDE DEF r
  <2> QED
    BY <2>1, <2>2, SameQueueOrderly
<1>14. ASSUME NEW s \in Session, DeleteSession(s)
       PROVE  Orderly(World)'
  <2>1. /\ session[s].status = "doomed" /\ core' = core
        /\ \A t \in Session : t # s => session'[t] = session[t]
    BY <1>14 DEF DeleteSession, TypeOK
  <2>2. \A l \in Core : ClaimedOf(l, core[l], session')
    <3> SUFFICES ASSUME NEW l \in Core, NEW j \in DOMAIN core[l].queue,
                        ~(j = 1 /\ core[l].active)
                 PROVE  /\ session'[core[l].queue[j].from].status = "live"
                        /\ session'[core[l].queue[j].from].core = l
      BY DEF ClaimedOf
    <3>1. core[l].queue[j].from \in Session
      BY <1>0, QueueElement
    <3> QED
      BY <1>0, <2>1, <3>1 DEF ClaimedOf
  <2> QED
    BY <1>0, <2>1, <2>2, WorldFieldsNext DEF Orderly, Single, Claimed
<1>15. CASE DisposeTimer
  BY <1>0, <1>15, DestroyUnusedOrderly, BecomeKept DEF DisposeTimer
<1>16. CASE StopAll
  <2>1. DOMAIN NoCore.queue = {}
    BY DEF NoCore
  <2>2. \A k \in Core : core'[k] = NoCore
    BY <1>16 DEF StopAll
  <2>3. SingleIn(NoCore.queue) /\ \A k \in Core : ClaimedOf(k, NoCore, session')
    BY <2>1 DEF SingleIn, ClaimedOf
  <2> QED
    BY <2>2, <2>3, WorldFieldsNext DEF Orderly, Single, Claimed
<1> QED
  BY <1>1, <1>2, <1>3, <1>4, <1>5, <1>6, <1>7, <1>8, <1>9, <1>10, <1>11, <1>12, <1>13, <1>14,
     <1>15, <1>16 DEF Next
-------------------------------------------------------------------------------
(* What waits is permitted: every action *)

LEMMA BecomePermitted ==
  ASSUME NEW w, Become(w), AllPermitted(w, lists), UNCHANGED lists
  PROVE  AllPermitted(World, lists)'
BY WorldFieldsNext DEF Become, AllPermitted

LEMMA CoreStepPermitted ==
  ASSUME TypeOK, AllPermitted(World, lists), NEW k \in Core, NEW r \in CoreMember,
         CoreBecomes(k, r), PermittedOf(r, lists)
  PROVE  AllPermitted(World, lists)'
BY WorldFields, WorldFieldsNext DEF TypeOK, CoreBecomes, AllPermitted

LEMMA SameQueuePermitted ==
  ASSUME TypeOK, AllPermitted(World, lists), NEW k \in Core, NEW r \in CoreMember,
         CoreBecomes(k, r), Same(r, core[k]),
         \A j \in DOMAIN r.queue : \E l \in DOMAIN core[k].queue : r.queue[j] = core[k].queue[l]
  PROVE  AllPermitted(World, lists)'
<1>1. PermittedOf(core[k], lists)
  BY WorldFields DEF AllPermitted
<1>2. PermittedOf(r, lists)
  BY <1>1 DEF PermittedOf, Same
<1> QED
  BY <1>2, CoreStepPermitted

LEMMA NextPermitted ==
  ASSUME TypeOK, AllPermitted(World, lists), ~Unchecked, Next
  PROVE  AllPermitted(World, lists)'
<1>0. /\ Sound(World)
      /\ \A k \in Core : core[k] \in CoreMember /\ PermittedOf(core[k], lists)
  BY WorldIsSound, WorldFields DEF AllPermitted, TypeOK
<1>a. "waiting" \notin interference /\ "closed" \notin interference
  BY DEF Unchecked
<1>1. ASSUME NEW c \in Client, NEW i \in Ids \cup {NewIdentity}, NEW m \in Method,
             GetAuthSession(c, i, m)
      PROVE  AllPermitted(World, lists)'
  <2>1. PICK w \in Created(DestroyUnused(World), c, i, m) : Become(w)
    BY <1>1 DEF GetAuthSession
  <2>2. AllPermitted(w, lists)
    BY <1>0, <2>1, DestroyUnusedSound, DestroyUnusedPermitted, CreatedPermitted
  <2> QED
    BY <1>1, <2>1, <2>2, BecomePermitted DEF GetAuthSession
<1>2. ASSUME NEW c \in Client, NEW i \in Ids \cup {NewIdentity}, NEW m \in Method,
             RequestAccess(c, i, m)
      PROVE  AllPermitted(World, lists)'
  BY <1>0, <1>2, DestroyUnusedPermitted, BecomePermitted DEF RequestAccess
<1>3. ASSUME NEW c \in Client, Declined(c)
      PROVE  AllPermitted(World, lists)'
  BY <1>3, BecomePermitted DEF Declined
<1>4. ASSUME NEW c \in Client, Accepted(c)
      PROVE  AllPermitted(World, lists)'
  <2> DEFINE i == request[c][1]
             m == request[c][2]
  <2>1. request[c] \in Key /\ i \in Ids /\ m \in Method
    BY <1>4 DEF Accepted, TypeOK, Key
  <2>2. PICK w \in Created(World, c, i, m) : Become(Replied(w))
    BY <1>4 DEF Accepted
  <2> HIDE DEF i, m
  <2>3. AllPermitted(Replied(w), lists)
    BY <1>0, <2>1, <2>2, CreatedSound, CreatedPermitted, DestroyUnusedPermitted DEF Replied
  <2> QED
    BY <1>4, <2>2, <2>3, BecomePermitted DEF Accepted
<1>5. ASSUME NEW c \in Client, NEW s \in Session, NEW words \in (SUBSET Word) \ {{}},
             Process(c, s, words)
      PROVE  AllPermitted(World, lists)'
  <2> DEFINE k == session[s].core
  <2>1. PICK r \in CoreMember :
              /\ CoreBecomes(k, r) /\ Same(r, core[k])
              /\ r.active = core[k].active /\ r.autoDestruct = core[k].autoDestruct /\ ~r.idle
              /\ \/ r.queue = core[k].queue /\ r.posted = core[k].posted
                 \/ /\ r.posted /\ Len(core[k].queue) < MaxQueue
                    /\ \E g \in (SUBSET Word) \ {{}} :
                         /\ r.queue = Append(core[k].queue, [from |-> s, words |-> g])
                         /\ core[k].id # NewIdentity /\ "closed" \notin interference
                              => Permits(lists[core[k].id], core[k].method, g)
    BY <1>5, ProcessIs
  <2>2. k \in Core
    BY <1>5, ProcessIs
  <2>3. CASE r.queue = core[k].queue
    BY <2>1, <2>2, <2>3, SameQueuePermitted
  <2>4. CASE \E g \in (SUBSET Word) \ {{}} :
               /\ r.queue = Append(core[k].queue, [from |-> s, words |-> g])
               /\ core[k].id # NewIdentity /\ "closed" \notin interference
                    => Permits(lists[core[k].id], core[k].method, g)
    <3>1. PICK g \in (SUBSET Word) \ {{}} :
               /\ r.queue = Append(core[k].queue, [from |-> s, words |-> g])
               /\ core[k].id # NewIdentity /\ "closed" \notin interference
                    => Permits(lists[core[k].id], core[k].method, g)
      BY <2>4
    <3> DEFINE e == [from |-> s, words |-> g]
               q == core[k].queue
    <3>2. e \in Request /\ q \in Seq(Request) /\ e.words = g
      BY <1>0, <2>2 DEF Request, CoreMember
    <3>3. r.queue = Append(q, e)
      BY <3>1
    <3> HIDE DEF e, q
    <3>4. /\ DOMAIN r.queue = 1 .. Len(q) + 1 /\ Len(q) \in Nat /\ DOMAIN q = 1 .. Len(q)
          /\ r.queue[Len(q) + 1] = e /\ \A j \in 1 .. Len(q) : r.queue[j] = q[j]
      BY <3>2, <3>3, AppendProperties, LenProperties
    <3>5. ASSUME core[k].id # NewIdentity, NEW j \in DOMAIN r.queue
          PROVE  Permits(lists[core[k].id], core[k].method, r.queue[j].words)
      <4>1. CASE j = Len(q) + 1
        BY <1>a, <3>1, <3>2, <3>4, <3>5, <4>1
      <4>2. CASE j # Len(q) + 1
        <5>1. j \in DOMAIN q /\ r.queue[j] = q[j]
          BY <3>4, <4>2
        <5>2. PermittedOf(core[k], lists)
          BY <1>0, <2>2
        <5> QED
          BY <3>5, <5>1, <5>2 DEF PermittedOf, q
      <4> QED
        BY <4>1, <4>2
    <3>6. PermittedOf(r, lists)
      BY <2>1, <3>5 DEF PermittedOf, Same
    <3> QED
      BY <2>1, <2>2, <3>6, CoreStepPermitted
  <2> QED
    BY <2>1, <2>3, <2>4
<1>6. ASSUME NEW c \in Client, NEW s \in Session, Cancel(c, s) \/ ObjectUnref(c, s)
      PROVE  AllPermitted(World, lists)'
  <2> DEFINE k == session[s].core
             r == Withdrawn(core[k], s)
             q == core[k].queue
  <2>1. k \in Core /\ r \in CoreMember /\ CoreBecomes(k, r)
    BY <1>6, CancelIs
  <2>2. core[k] \in CoreMember /\ q \in Seq(Request)
    BY <1>0, <2>1 DEF CoreMember
  <2>3. CASE r = core[k]
    <3>1. Same(r, core[k])
      BY <2>3 DEF Same
    <3> QED
      BY <2>1, <2>3, <3>1, SameQueuePermitted
  <2>4. CASE \E n \in DOMAIN q : r = [core[k] EXCEPT !.queue = RemoveAt(q, n)]
    <3>1. PICK n \in DOMAIN q : r = [core[k] EXCEPT !.queue = RemoveAt(q, n)]
      BY <2>4
    <3> HIDE DEF r, k
    <3>2. r.queue = RemoveAt(q, n) /\ Same(r, core[k])
      BY <2>2, <3>1 DEF CoreMember, Same
    <3> HIDE DEF q
    <3>3. /\ RemoveAt(q, n) \in Seq(Request) /\ Len(RemoveAt(q, n)) = Len(q) - 1
          /\ \A j \in 1 .. Len(q) - 1 :
               RemoveAt(q, n)[j] = IF j < n THEN q[j] ELSE q[j + 1]
      BY <2>2, <3>1, RemoveAtProperties
    <3>4. DOMAIN q = 1 .. Len(q) /\ Len(q) \in Nat /\ DOMAIN RemoveAt(q, n) = 1 .. Len(q) - 1
      BY <2>2, <3>3, LenProperties
    <3>5. ASSUME NEW j \in DOMAIN r.queue
          PROVE  \E l \in DOMAIN q : r.queue[j] = q[l]
      <4>1. /\ j \in 1 .. Len(q) - 1 /\ j \in DOMAIN q /\ j + 1 \in DOMAIN q
            /\ r.queue[j] = q[j] \/ r.queue[j] = q[j + 1]
        BY <3>2, <3>3, <3>4
      <4> QED
        BY <4>1
    <3> QED
      BY <2>1, <3>2, <3>5, SameQueuePermitted DEF q
  <2> QED
    BY <2>1, <2>2, <2>3, <2>4, WithdrawnIs
<1>7. ASSUME NEW c \in Client, NEW s \in Session, NEW i \in Ids, SetId(c, s, i)
      PROVE  AllPermitted(World, lists)'
  <2> DEFINE k == session[s].core
  <2>1. PICK r \in CoreMember :
              /\ core' = [core EXCEPT ![k] = r]
              /\ r.status = core[k].status /\ r.method = core[k].method
              /\ r.active = core[k].active /\ r.autoDestruct = core[k].autoDestruct
              /\ r.queue = core[k].queue /\ r.posted = core[k].posted /\ ~r.idle
              /\ \/ r.id = core[k].id /\ UNCHANGED <<stored, nonStored>>
                 \/ /\ r.id = i /\ i # core[k].id
                    /\ stored[<<i, core[k].method>>] = Null
                    /\ nonStored' = nonStored \ {k}
                    /\ stored' = [stored EXCEPT ![<<i, core[k].method>>] = k]
    BY <1>7, SetIdIs
  <2>2. /\ k \in Core /\ UNCHANGED lists /\ core \in [Core -> CoreMember]
    BY <1>7, SetIdIs DEF TypeOK
  <2>3. i = core[k].id \/ core[k].queue = <<>>
    BY <1>7, <1>a DEF SetId
  <2>4. r.id = core[k].id \/ DOMAIN r.queue = {}
    BY <2>1, <2>3
  <2>5. PermittedOf(r, lists)
    BY <1>0, <2>1, <2>2, <2>4 DEF PermittedOf
  <2> QED
    BY <1>0, <2>1, <2>2, <2>5, WorldFieldsNext DEF AllPermitted
<1>8. ASSUME NEW c \in Client, NEW i \in Ids, NEW l \in Infos, StoreLists(c, i, l)
      PROVE  AllPermitted(World, lists)'
  <2>1. /\ lists' = [lists EXCEPT ![i] = l] /\ core' = core /\ lists \in [Ids -> Infos]
        /\ \A k \in Core : core[k].id = i => core[k].queue = <<>>
    BY <1>8, <1>a DEF StoreLists, TypeOK
  <2>2. ASSUME NEW k \in Core
        PROVE  PermittedOf(core[k], lists')
    <3>1. CASE core[k].id = i
      <4>1. DOMAIN core[k].queue = {}
        BY <2>1, <3>1
      <4> QED
        BY <4>1 DEF PermittedOf
    <3>2. CASE core[k].id # i
      <4>1. core[k].id # NewIdentity => lists'[core[k].id] = lists[core[k].id]
        BY <1>0, <2>1, <3>2 DEF CoreMember
      <4> QED
        BY <1>0, <4>1 DEF PermittedOf
    <3> QED
      BY <3>1, <3>2
  <2> QED
    BY <2>1, <2>2, WorldFieldsNext DEF AllPermitted
<1>9. ASSUME NEW k \in Core, StartNewRequest(k)
      PROVE  AllPermitted(World, lists)'
  <2>1. PICK r \in CoreMember :
              /\ CoreBecomes(k, r) /\ Same(r, core[k]) /\ r.queue = core[k].queue
              /\ r.active = (core[k].active \/ core[k].queue # <<>>)
    BY <1>9, StartNewRequestIs
  <2> QED
    BY <2>1, SameQueuePermitted
<1>10. ASSUME NEW k \in Core, RequestDone(k)
       PROVE  AllPermitted(World, lists)'
  <2>1. PICK r \in CoreMember :
              /\ CoreBecomes(k, r) /\ Same(r, core[k])
              /\ ~r.active /\ r.posted /\ r.autoDestruct = core[k].autoDestruct
              /\ r.queue = Tail(core[k].queue)
    BY <1>10, RequestDoneIs
  <2>2. core[k].queue \in Seq(Request) /\ core[k].queue # <<>>
    BY <1>0, <1>10, RequestDoneIs DEF TypeOK, CoreMember
  <2> DEFINE q == core[k].queue
  <2> HIDE DEF q
  <2>3. /\ q \in Seq(Request) /\ q # <<>>
    BY <2>2 DEF q
  <2>4. /\ DOMAIN q = 1 .. Len(q) /\ Len(q) \in Nat /\ DOMAIN Tail(q) = 1 .. Len(q) - 1
        /\ \A j \in 1 .. Len(q) - 1 : Tail(q)[j] = q[j + 1]
    BY <2>3, LenProperties, HeadTailProperties
  <2>5. \A j \in DOMAIN Tail(q) : j + 1 \in DOMAIN q /\ Tail(q)[j] = q[j + 1]
    BY <2>4
  <2>6. \A j \in DOMAIN Tail(q) : \E l \in DOMAIN q : Tail(q)[j] = q[l]
    BY <2>5
  <2> QED
    BY <2>1, <2>6, SameQueuePermitted DEF q
<1>11. ASSUME NEW k \in Core, Inactive(k)
       PROVE  AllPermitted(World, lists)'
  <2>1. PICK r \in CoreMember :
              /\ CoreBecomes(k, r) /\ Same(r, core[k])
              /\ r.active = core[k].active /\ r.autoDestruct = core[k].autoDestruct
              /\ r.queue = core[k].queue /\ r.posted = core[k].posted
    BY <1>11, InactiveIs
  <2> QED
    BY <2>1, SameQueuePermitted
<1>12. ASSUME NEW k \in Core, DeleteCore(k)
       PROVE  AllPermitted(World, lists)'
  <2>1. /\ core' = [core EXCEPT ![k] = NoCore] /\ lists' = lists /\ core \in [Core -> CoreMember]
    BY <1>12 DEF DeleteCore, TypeOK
  <2>2. PermittedOf(NoCore, lists)
    BY DEF NoCore, PermittedOf
  <2> QED
    BY <1>0, <2>1, <2>2, WorldFieldsNext DEF AllPermitted
<1>13. ASSUME NEW s \in Session, Query(s)
       PROVE  AllPermitted(World, lists)'
  <2> DEFINE k == session[s].core
             r == InUse(core[k])
  <2>1. k \in Core /\ r \in CoreMember /\ CoreBecomes(k, r)
    BY <1>13, QueryIs
  <2>2. r.queue = core[k].queue /\ Same(r, core[k])
    BY <1>0, <2>1, InUseIs
  <2> HIDE DEF r
  <2> QED
    BY <2>1, <2>2, SameQueuePermitted
<1>14. ASSUME NEW s \in Session, DeleteSession(s)
       PROVE  AllPermitted(World, lists)'
  BY <1>0, <1>14, WorldFieldsNext DEF DeleteSession, AllPermitted
<1>15. CASE DisposeTimer
  BY <1>0, <1>15, DestroyUnusedPermitted, BecomePermitted DEF DisposeTimer
<1>16. CASE StopAll
  <2>1. PermittedOf(NoCore, lists)
    BY DEF NoCore, PermittedOf
  <2> QED
    BY <1>16, <2>1, WorldFieldsNext DEF StopAll, AllPermitted
<1> QED
  BY <1>1, <1>2, <1>3, <1>4, <1>5, <1>6, <1>7, <1>8, <1>9, <1>10, <1>11, <1>12, <1>13, <1>14,
     <1>15, <1>16 DEF Next
-------------------------------------------------------------------------------
(* The session that a client is given: its core is that of the identity asked for, and
   one that destroyUnused() may delete only if it was found unused. *)

\* The session that was opened is the client's, of a core with the identity, which is idle only
\* if it was registered before.
OpensFor(w, v, c, i, m) ==
  /\ v.opened \in Session /\ v.session[v.opened].status = "live"
  /\ v.session[v.opened].owner = c
  /\ v.session[v.opened].core \in Core
  /\ v.core[v.session[v.opened].core].id = i
  /\ v.core[v.session[v.opened].core].idle =>
       /\ i # NewIdentity /\ w.stored[<<i, m>>] # Null
       /\ w.core[w.stored[<<i, m>>]].idle

LEMMA CreatedOpens ==
  ASSUME NEW w, Sound(w), Kept(w), w.opened = Null, NEW c \in Client,
         NEW i \in Ids \cup {NewIdentity}, NEW m \in Method, NEW v \in Created(w, c, i, m),
         v.opened # Null
  PROVE  OpensFor(w, v, c, i, m)
<1>1. w \in Worlds
  BY DEF Sound
<1>2. ASSUME NEW u \in Worlds, NEW k \in Core, NEW s \in Session, v = WithSession(u, k, s, c)
      PROVE  /\ v.opened = s /\ v.core = u.core
             /\ v.session[s].status = "live" /\ v.session[s].owner = c
             /\ v.session[s].core = k
  <2> DEFINE x == WithSession(u, k, s, c)
  <2>1. /\ x.opened = s /\ x.core = u.core
        /\ x.session = [u.session EXCEPT ![s] = [status |-> "live", core |-> k, owner |-> c]]
    BY WithSessionFields
  <2>2. u.session \in [Session -> SessionMember]
    BY DEF Worlds
  <2> HIDE DEF x
  <2>3. v = x
    BY <1>2 DEF x
  <2> QED
    BY <2>1, <2>2, <2>3
<1>3. CASE \E k \in Core, s \in Session : v = WithSession(WithCore(w, i, m, k), k, s, c)
  <2>1. PICK k \in Core, s \in Session : v = WithSession(WithCore(w, i, m, k), k, s, c)
    BY <1>3
  <2> DEFINE u == WithCore(w, i, m, k)
  <2>2. u \in Worlds /\ u.core[k] = NewCore(i, m)
    BY <1>1, WithCoreType, WithCoreCores
  <2>3. NewCore(i, m).id = i /\ ~NewCore(i, m).idle
    BY NewCoreFields
  <2> HIDE DEF u
  <2>4. v = WithSession(u, k, s, c)
    BY <2>1 DEF u
  <2> QED
    BY <1>2, <2>2, <2>3, <2>4 DEF OpensFor
<1>4. CASE \E s \in Session : /\ i # NewIdentity /\ w.stored[<<i, m>>] \in Core
                              /\ v = WithSession(w, w.stored[<<i, m>>], s, c)
  <2> DEFINE k == w.stored[<<i, m>>]
  <2>1. PICK s \in Session : i # NewIdentity /\ k \in Core /\ v = WithSession(w, k, s, c)
    BY <1>4
  <2>2. <<i, m>> \in Key
    BY <2>1 DEF Key
  <2>3. k # Null /\ <<i, m>> = <<w.core[k].id, w.core[k].method>>
    BY <2>1, <2>2, SessionsAssumption DEF Kept, Keyed
  <2> HIDE DEF k
  <2>4. /\ v.opened = s /\ v.core = w.core
        /\ v.session[s].status = "live" /\ v.session[s].owner = c
        /\ v.session[s].core = k
    BY <1>1, <1>2, <2>1
  <2>5. w.core[k].id = i
    BY <2>3
  <2>6. w.core[k].idle => w.stored[<<i, m>>] # Null /\ w.core[w.stored[<<i, m>>]].idle
    BY <2>3 DEF k
  <2> QED
    BY <2>1, <2>4, <2>5, <2>6 DEF OpensFor
<1>5. \/ v = w
      \/ \E k \in Core, s \in Session : v = WithSession(WithCore(w, i, m, k), k, s, c)
      \/ \E s \in Session : /\ i # NewIdentity /\ w.stored[<<i, m>>] \in Core
                           /\ v = WithSession(w, w.stored[<<i, m>>], s, c)
  BY <1>1, CreatedIs
<1> QED
  BY <1>3, <1>4, <1>5

LEMMA NextOpened ==
  ASSUME TypeOK, Kept(World), Next
  PROVE  /\ OpenedWhenAllowed'
         /\ "late" \notin interference => HandedOutLive'
<1>0. Sound(World) /\ World.opened = Null
  BY WorldIsSound, WorldFields
<1>1. ASSUME NEW c \in Client, NEW i \in Ids \cup {NewIdentity}, NEW m \in Method,
             GetAuthSession(c, i, m)
      PROVE  OpenedWhenAllowed' /\ HandedOutLive'
  <2> DEFINE u == DestroyUnused(World)
  <2>1. PICK w \in Created(u, c, i, m) : Become(w)
    BY <1>1 DEF GetAuthSession
  <2>2. AllowedId(c, i) /\ lists' = lists
    BY <1>1 DEF GetAuthSession
  <2>3. Sound(u) /\ Kept(u) /\ u.opened = Null
    <3>1. World \in Worlds
      BY <1>0 DEF Sound
    <3> QED
      BY <1>0, <3>1, DestroyUnusedSound, DestroyUnusedKept, DestroyUnusedFields
  <2> HIDE DEF u
  <2>4. w.opened # Null =>
          /\ w.session[w.opened].status = "live" /\ w.session[w.opened].owner = c
          /\ w.core[w.session[w.opened].core].id = i
    <3> SUFFICES ASSUME w.opened # Null
                 PROVE  /\ w.session[w.opened].status = "live" /\ w.session[w.opened].owner = c
                        /\ w.core[w.session[w.opened].core].id = i
      OBVIOUS
    <3>1. w \in Created(u, c, i, m) /\ Sound(u) /\ Kept(u) /\ u.opened = Null
      BY <2>1, <2>3
    <3>2. OpensFor(u, w, c, i, m)
      BY <3>1, CreatedOpens
    <3> QED
      BY <3>2 DEF OpensFor
  <2>5. opened' = w.opened /\ session' = w.session /\ core' = w.core
    BY <2>1 DEF Become
  <2>6. HandedOutLive'
    BY <2>4, <2>5 DEF HandedOutLive
  <2>7. i \in Ids => PeerAllowed(c, lists[i])
    BY <2>2, SessionsAssumption DEF AllowedId
  <2> QED
    BY <2>2, <2>4, <2>5, <2>6, <2>7 DEF OpenedWhenAllowed
<1>2. ASSUME NEW c \in Client, Accepted(c)
      PROVE  /\ OpenedWhenAllowed'
             /\ "late" \notin interference => HandedOutLive'
  <2> DEFINE i == request[c][1]
             m == request[c][2]
  <2>1. request[c] \in Key /\ i \in Ids /\ m \in Method /\ AllowedId(c, i) /\ lists' = lists
        /\ (stored[<<i, m>>] # Null /\ core[stored[<<i, m>>]].idle => "late" \in interference)
    BY <1>2 DEF Accepted, TypeOK, Key, StillAllowed
  <2>2. PICK w \in Created(World, c, i, m) : Become(Replied(w))
    BY <1>2 DEF Accepted
  <2> HIDE DEF i, m
  <2>3. Sound(w) /\ Kept(w) /\ w \in Worlds
    BY <1>0, <2>1, <2>2, CreatedSound, CreatedKept DEF Sound
  <2> DEFINE v == DestroyUnused(w)
             s == w.opened
             k == w.session[s].core
  <2>0. CASE w.opened = Null
    BY <2>0, <2>2 DEF Become, Replied, OpenedWhenAllowed, HandedOutLive
  <2> SUFFICES ASSUME w.opened # Null
               PROVE  OpenedWhenAllowed' /\ ("late" \notin interference => HandedOutLive')
    BY <2>0
  <2>4. /\ v.session = [t \in Session |->
             IF w.session[t].core # Null /\ Gone(w, w.session[t].core)
               THEN NoSession ELSE w.session[t]]
        /\ v.opened = w.opened
    BY <2>3, DestroyUnusedFields
  <2>5. s # Null =>
          /\ s \in Session /\ w.session[s].status = "live" /\ w.session[s].owner = c
          /\ k \in Core
          /\ w.core[k].id = i
          /\ w.core[k].idle => stored[<<i, m>>] # Null /\ core[stored[<<i, m>>]].idle
    <3>1. s # Null => OpensFor(World, w, c, i, m)
      BY <1>0, <2>1, <2>2, CreatedOpens
    <3> QED
      BY <3>1, WorldFields DEF OpensFor
  <2>6. \A l \in Core : ~Gone(w, l) => v.core[l] = w.core[l]
    BY <2>3, UnusedIsGone DEF Kept
  <2>7. \A l \in Core : Gone(w, l) => w.core[l].idle
    BY DEF Gone, Unused
  <2> HIDE DEF v, s, k
  <2>8. opened' = s /\ session' = v.session /\ core' = v.core
    BY <2>2, <2>4 DEF Become, Replied, v, s
  <2>9. s # Null /\ ~Gone(w, k) => session'[s] = w.session[s] /\ core'[k] = w.core[k]
    BY <2>4, <2>5, <2>6, <2>8 DEF k
  <2>10. s # Null /\ Gone(w, k) => session'[s].status = "none"
    BY <2>4, <2>5, <2>8, SessionsAssumption DEF k, NoSession
  <2>11. OpenedWhenAllowed'
    <3>1. i \in Ids => PeerAllowed(c, lists[i])
      BY <2>1, SessionsAssumption DEF AllowedId
    <3> QED
      BY <2>1, <2>5, <2>8, <2>9, <2>10, <3>1 DEF OpenedWhenAllowed, k
  <2>12. "late" \notin interference => HandedOutLive'
    BY <2>1, <2>5, <2>7, <2>8, <2>9 DEF HandedOutLive
  <2> QED
    BY <2>11, <2>12
<1>3. CASE opened' = Null
  BY <1>3 DEF OpenedWhenAllowed, HandedOutLive
<1>4. ASSUME Become(DestroyUnused(World)) PROVE opened' = Null
  <2>1. World \in Worlds
    BY <1>0 DEF Sound
  <2> QED
    BY <1>0, <1>4, <2>1, DestroyUnusedFields DEF Become
<1>5. ASSUME NEW c \in Client, NEW i \in Ids \cup {NewIdentity}, NEW m \in Method,
             RequestAccess(c, i, m)
      PROVE  opened' = Null
  BY <1>4, <1>5 DEF RequestAccess
<1>6. ASSUME NEW c \in Client, Declined(c)
      PROVE  opened' = Null
  BY <1>0, <1>6 DEF Declined, Become
<1>7. CASE DisposeTimer
  BY <1>3, <1>4, <1>7 DEF DisposeTimer
<1>8. ASSUME NEW c \in Client, NEW s \in Session,
             \/ \E words \in (SUBSET Word) \ {{}} : Process(c, s, words)
             \/ Cancel(c, s) \/ ObjectUnref(c, s)
             \/ \E i \in Ids : SetId(c, s, i)
      PROVE  opened' = Null
  BY <1>8 DEF Process, Cancel, ObjectUnref, SetId
<1>9. ASSUME NEW c \in Client, NEW i \in Ids, NEW l \in Infos, StoreLists(c, i, l)
      PROVE  opened' = Null
  BY <1>9 DEF StoreLists
<1>10. ASSUME NEW k \in Core,
              StartNewRequest(k) \/ RequestDone(k) \/ Inactive(k) \/ DeleteCore(k)
       PROVE  opened' = Null
  BY <1>10 DEF StartNewRequest, RequestDone, Inactive, DeleteCore
<1>11. ASSUME (\E s \in Session : Query(s) \/ DeleteSession(s)) \/ StopAll
       PROVE  opened' = Null
  BY <1>11 DEF Query, DeleteSession, StopAll
<1> QED
  BY <1>1, <1>2, <1>3, <1>5, <1>6, <1>7, <1>8, <1>9, <1>10, <1>11 DEF Next

-------------------------------------------------------------------------------
(* The inductive invariant: what is claimed of the registries, of the requests and of
   their words, each as long as the disorder that would break it is not there. *)

IInv ==
  /\ TypeOK
  /\ "reassign" \notin interference =>
       /\ Kept(World)
       /\ OpenedWhenAllowed
       /\ "late" \notin interference => HandedOutLive
       /\ "again" \notin interference => Orderly(World)
  /\ ~Unchecked => AllPermitted(World, lists)

LEMMA InitInvariant ==
  ASSUME Init
  PROVE  IInv
<1>1. TypeOK
  BY InitTyped
<1>2. /\ NoCore.status = "none" /\ NoCore.queue = <<>> /\ NoCore.active = FALSE
      /\ NoSession.status = "none" /\ DOMAIN NoCore.queue = {} /\ NoCore.id = NewIdentity
  BY DEF NoCore, NoSession
<1>3. /\ core = [k \in Core |-> NoCore] /\ stored = [key \in Key |-> Null]
      /\ nonStored = {} /\ session = [s \in Session |-> NoSession] /\ opened = Null
  BY DEF Init
<1>4. Kept(World)
  BY <1>2, <1>3, WorldFields
     DEF Kept, Keyed, Unkeyed, Found, Housed, Served, ServedCore
<1>5. Orderly(World)
  BY <1>2, <1>3, WorldFields DEF Orderly, Single, SingleIn, Claimed, ClaimedOf
<1>6. AllPermitted(World, lists)
  BY <1>2, <1>3, WorldFields DEF AllPermitted, PermittedOf
<1> QED
  BY <1>1, <1>3, <1>4, <1>5, <1>6 DEF IInv, OpenedWhenAllowed, HandedOutLive

LEMMA NextInvariant ==
  ASSUME IInv, [Next]_vars
  PROVE  IInv'
<1>1. CASE Next
  <2>1. TypeOK' /\ interference' = interference
    BY <1>1, NextTyped DEF IInv, Next
  <2>2. ASSUME "reassign" \notin interference
        PROVE  /\ Kept(World)'
               /\ OpenedWhenAllowed'
               /\ "late" \notin interference => HandedOutLive'
               /\ "again" \notin interference => Orderly(World)'
    BY <1>1, <2>2, NextKept, NextOpened, NextOrderly DEF IInv
  <2>3. ~Unchecked => AllPermitted(World, lists)'
    BY <1>1, NextPermitted DEF IInv
  <2> QED
    BY <2>1, <2>2, <2>3 DEF IInv, Unchecked
<1>2. CASE UNCHANGED vars
  BY <1>2 DEF IInv, Unchecked, vars, TypeOK, World, OpenedWhenAllowed, HandedOutLive
<1> QED
  BY <1>1, <1>2

LEMMA InvariantImpliesSessionsInv ==
  ASSUME IInv
  PROVE  SessionsInv
<1>1. ASSUME "reassign" \notin interference
      PROVE  RegistryIsFaithful /\ OneCorePerIdentity
  <2>1. TypeOK /\ Kept(World)
    BY <1>1 DEF IInv
  <2>2. RegistryIsFaithful
    BY <2>1, KeptIs DEF RegistryIsFaithful
  <2>3. OneCorePerIdentity
    BY <2>2, SessionsAssumption DEF OneCorePerIdentity, RegistryIsFaithful
  <2> QED
    BY <2>2, <2>3
<1>2. ASSUME "reassign" \notin interference, "again" \notin interference
      PROVE  NoOrphanRequests
  <2>1. Orderly(World)
    BY <1>2 DEF IInv
  <2> QED
    BY <2>1, WorldFields DEF Orderly, Claimed, ClaimedOf, NoOrphanRequests
<1> QED
  BY <1>1, <1>2 DEF IInv, SessionsInv

(* sessionsOfStoredCredentials and sessionsOfNonStoredCredentials and the cores agree, so that
   no two cores serve one identity and method; a session of a stored identity is opened only
   for a client that its lists admit; the path that a client is given leads to a session that
   is there; and no request outlives its session.  Each is claimed as long as the disorder
   that breaks it is not there. *)
THEOREM SessionsAreOrderly == Spec => []SessionsInv
<1>1. Init => IInv
  BY InitInvariant
<1>2. IInv /\ [Next]_vars => IInv'
  BY NextInvariant
<1>3. IInv => SessionsInv
  BY InvariantImpliesSessionsInv
<1> QED
  BY <1>1, <1>2, <1>3, PTL DEF Spec

(* What a core starts is permitted by the lists of the identity that it has then, unless an
   identity or its lists changed while the request waited, or the credentials system was closed
   when it came. *)
THEOREM StartsArePermitted == Spec => StartedAsPermitted
<1>1. Init => IInv
  BY InitInvariant
<1>2. IInv /\ [Next]_vars => IInv'
  BY NextInvariant
<1>3. IInv /\ IInv' /\ [Next]_vars
        => [(\A k \in Core : PermittedIfStarted(k)) \/ Unchecked]_vars
  <2> SUFFICES ASSUME IInv', Next, ~Unchecked, NEW k \in Core
               PROVE  PermittedIfStarted(k)
    OBVIOUS
  <2>1. AllPermitted(World', lists') /\ TypeOK'
    BY DEF IInv, Next, Unchecked
  <2>2. PermittedOf(core'[k], lists') /\ core'[k] \in CoreMember
        /\ (core'[k].active => core'[k].queue # <<>>)
    BY <2>1, WorldFieldsNext DEF AllPermitted, TypeOK
  <2>3. core'[k].queue # <<>> => 1 \in DOMAIN core'[k].queue
    BY <2>2, TailIsRemoveAt DEF CoreMember
  <2> QED
    BY <2>2, <2>3, SessionsAssumption DEF PermittedIfStarted, PermittedOf, Permits
<1> QED
  BY <1>1, <1>2, <1>3, PTL DEF Spec, StartedAsPermitted

-------------------------------------------------------------------------------
\* Backup

Restoring == {"move", "fetch", "recover", "clean"}

\* Which call is at which step, and that it has not replied until it ends.
CallAtStep ==
  /\ step \in {"tree", "copy"} => call = "backup"
  /\ step \in Restoring => call = "restore"
  /\ step # "idle" => code = "none"

\* A system that is open has a DB with tables.
OpenedDB == systemOpened => storage[DB] \notin {Missing, Empty}

NeverInMode == Without({"mode"}) => process # "backup"

\* The files that are still to come have not been touched; the one at "fetch" has been
\* moved at most.
ListsInOrder ==
  /\ IsInjective(todo) /\ IsInjective(moved)
  /\ step = "move" => ToSet(todo) \cap (ToSet(moved) \cup ToSet(copied)) = {}
  /\ step = "fetch" =>
       /\ todo # <<>>
       /\ ToSet(todo) \cap ToSet(copied) = {}
       /\ ToSet(Tail(todo)) \cap ToSet(moved) = {}
  /\ step = "clean" => todo = <<>>

\* createStorageFileTree() leaves what a backup is to hold, and copyToBackupDir() as it is.
TreeMade ==
  /\ step = "tree" => \A f \in Relative :
       storage[f] = CopyOf(f) \/ (f \in ToSet(todo) /\ storage[f] = before[f])
  /\ step = "copy" => \A f \in Relative : storage[f] = CopyOf(f)

\* The copies of the files that are no longer to come, and no others
CopiesTaken ==
  /\ step = "copy" => \A f \in File :
       IF f \in Relative THEN f \in ToSet(todo) \/ saved[f] = CopyOf(f) ELSE saved[f] = Missing
  /\ call = "backup" /\ step = "idle" /\ code = "ok" => \A f \in File :
       IF f \in Relative THEN saved[f] = CopyOf(f) ELSE saved[f] = Missing

\* What the backup application has is a whole backup.
ArchiveWhole ==
  archive # NoFiles => \A f \in File : (archive[f] = Missing) = (f \notin Relative)

BackupBrought ==
  Without({"unbrought"}) /\ step \in Restoring => saved = archive /\ archive # NoFiles

\* A file that is in neither list is as it was, or was given up when it was to be moved back.
Undone(f) ==
  \/ storage[f] = before[f]
  \/ step = "recover" /\ May("back") /\ storage[f] = Missing /\ bak[f] = before[f]

\* From the two lists what a restore has done can be undone, at any moment until it cleans up.
UndoableFile(f) ==
  /\ f \in ToSet(moved) => bak[f] = before[f] /\ (f \notin ToSet(copied) => storage[f] = Missing)
  /\ f \notin ToSet(moved) => IF f \in ToSet(copied) THEN before[f] = Missing ELSE Undone(f)

Undoable == step \in {"move", "fetch", "recover"} => \A f \in File : UndoableFile(f)

\* The files that are no longer to come are those of the backup.
Replaced ==
  Without({"unbrought"}) /\ step \in {"move", "fetch", "clean"} =>
    \A f \in Relative \ ToSet(todo) : storage[f] = archive[f]

RestoreClaim == Without({"unbrought", "back", "open"}) => RestoreAllOrNothing
LostClaim == Without({"unbrought"}) => NothingLost
OpenClaim ==
  Without({"tree", "umount", "open"}) /\ Absolute = {} =>
    OpenAgain /\ (Without({"mode"}) => NoCrash)

Inv ==
  /\ BackupTypeOK
  /\ CallAtStep /\ OpenedDB /\ NeverInMode /\ ListsInOrder
  /\ TreeMade /\ CopiesTaken /\ ArchiveWhole /\ BackupBrought /\ Undoable /\ Replaced
  /\ LostClaim /\ RestoreClaim /\ OpenClaim

-----------------------------------------------------------------------------
(* The setup, and sequences *)

LEMMA SetupFacts ==
  ASSUME setup \in Setups
  PROVE  /\ Listed \in Seq(Names) /\ Listed # <<>> /\ IsInjective(Listed) /\ Head(Listed) = DB
         /\ Names \subseteq File /\ Absolute \subseteq Names /\ DB \in Relative
         /\ Relative \subseteq Names
<1> DEFINE l == Listed
<1>1. IsSetup(setup)
  BY BackupAssumption
<1>2. l \in Seq(File) /\ Len(l) > 0 /\ l[1] = DB /\ Absolute \subseteq Names \ {DB}
      /\ IsInjective(l)
  BY <1>1 DEF IsSetup, Listed, Absolute, Names
<1>3. Len(l) \in Nat /\ DOMAIN l = 1 .. Len(l) /\ l \in [1 .. Len(l) -> File]
  BY <1>2, LenProperties
<1>4. l # <<>>
  BY <1>2, EmptySeq
<1>5. Names \subseteq File /\ DB \in Names
  BY <1>2, <1>3 DEF Names, ToSet
<1>6. l \in Seq(Names)
  <2>1. l \in [1 .. Len(l) -> Names]
    BY <1>3 DEF Names, ToSet
  <2> QED
    BY <2>1, <1>3, SeqDef
<1>7. Head(l) = DB
  BY <1>2, <1>4, TailIsRemoveAt
<1> QED
  BY <1>2, <1>4, <1>5, <1>6, <1>7 DEF Relative

\* The head of a list, and those that come after it
LEMMA HeadAndTail ==
  ASSUME NEW S, NEW s \in Seq(S), s # <<>>
  PROVE  /\ Head(s) \in S /\ Tail(s) \in Seq(S)
         /\ ToSet(s) = {Head(s)} \cup ToSet(Tail(s))
         /\ IsInjective(s) => IsInjective(Tail(s)) /\ Head(s) \notin ToSet(Tail(s))
<1>1. Head(s) \in S /\ Tail(s) \in Seq(S) /\ ToSet(s) = {Head(s)} \cup ToSet(Tail(s))
  BY HeadTailProperties, TailToSet
<1>2. ASSUME IsInjective(s)
      PROVE  IsInjective(Tail(s)) /\ Head(s) \notin ToSet(Tail(s))
  <2>1. 1 \in DOMAIN s /\ Head(s) = s[1] /\ RemoveAt(s, 1) = Tail(s)
    BY TailIsRemoveAt
  <2> QED
    BY <1>2, <2>1, RemoveAtToSet
<1> QED
  BY <1>1, <1>2

LEMMA EmptyList == ToSet(<<>>) = {} /\ IsInjective(<<>>) /\ \A S : <<>> \in Seq(S)
BY DEF ToSet, IsInjective

LEMMA InList ==
  ASSUME NEW S, NEW s \in Seq(S)
  PROVE  ToSet(s) \subseteq S
BY LenProperties DEF ToSet

\* The setup stays.
LEMMA SetupStays ==
  ASSUME UNCHANGED setup
  PROVE  /\ Listed' = Listed /\ Names' = Names /\ Absolute' = Absolute /\ Relative' = Relative
         /\ \A kind : May(kind)' = May(kind)
         /\ \A kinds : Without(kinds)' = Without(kinds)
BY DEF Listed, Names, Absolute, Relative, May, Without

LEMMA Types ==
  ASSUME BackupTypeOK
  PROVE  /\ storage \in [File -> Content] /\ bak \in [File -> Content]
         /\ saved \in [File -> Content] /\ archive \in [File -> Content]
         /\ before \in [File -> Content]
         /\ todo \in Seq(Names) /\ moved \in Seq(Names) /\ copied \in Seq(Names)
         /\ setup \in Setups /\ DB \in File /\ NoFiles \in [File -> Content]
BY DEF BackupTypeOK, File, NoFiles, Content

LEMMA InitializedType ==
  ASSUME NEW s \in [File -> Content]
  PROVE  /\ Initialized(s) \in [File -> Content]
         /\ Initialized(s)[DB] \notin {Missing, Empty}
         /\ \A f \in File \ {DB} : Initialized(s)[f] = s[f]
         /\ s[DB] \notin {Missing, Empty} => Initialized(s) = s
         /\ Initialized(Initialized(s)) = Initialized(s)
BY BackupAssumption DEF Initialized, File, Content

LEMMA InitializedAgrees ==
  ASSUME NEW s \in [File -> Content], NEW a \in [File -> Content], NEW f \in File,
         s[DB] = a[DB], s[f] = a[f]
  PROVE  Initialized(s)[f] = Initialized(a)[f]
BY DEF Initialized, File

LEMMA InitInv == BackupInit => Inv
<1> SUFFICES ASSUME BackupInit PROVE Inv
  OBVIOUS
<1>1. BackupTypeOK
  BY EmptyList DEF BackupInit, BackupTypeOK, NoFiles, Content
<1>2. ListsInOrder
  BY EmptyList DEF BackupInit, ListsInOrder
<1> QED
  BY <1>1, <1>2 DEF BackupInit, Inv, CallAtStep, OpenedDB, NeverInMode, TreeMade, CopiesTaken,
       ArchiveWhole, BackupBrought, Undoable, Replaced, LostClaim, NothingLost, RestoreClaim,
       RestoreAllOrNothing, OpenClaim, OpenAgain, NoCrash, Idle, Restoring

-----------------------------------------------------------------------------
(* The steps.  What a step leaves of the restore's invariants when it is none of a restore,
   and of a backup's. *)

LEMMA NotRestoring ==
  ASSUME step' \notin Restoring
  PROVE  BackupBrought' /\ Undoable' /\ Replaced'
BY DEF BackupBrought, Undoable, Replaced, Restoring

LEMMA NotBackingUp ==
  ASSUME call' # "backup", CallAtStep'
  PROVE  TreeMade' /\ CopiesTaken'
BY DEF CallAtStep, TreeMade, CopiesTaken

LEMMA NotRestored ==
  ASSUME call' # "restore"
  PROVE  LostClaim' /\ RestoreClaim'
BY DEF LostClaim, RestoreClaim, NothingLost, RestoreAllOrNothing

LEMMA BackupStartsInv ==
  ASSUME Inv, UNCHANGED setup, BackupStarts
  PROVE  Inv'
<1> USE DEF BackupStarts, files, Close, Idle
<1>1. BackupTypeOK'
  BY SetupFacts, SetupStays DEF Inv, BackupTypeOK
<1>2. CallAtStep' /\ OpenedDB' /\ NeverInMode'
  BY SetupStays DEF Inv, BackupTypeOK, CallAtStep, OpenedDB, NeverInMode, Restoring
<1>3. ListsInOrder'
  BY SetupFacts DEF Inv, BackupTypeOK, ListsInOrder
<1>4. TreeMade' /\ CopiesTaken'
  BY SetupFacts, SetupStays DEF Inv, BackupTypeOK, TreeMade, CopiesTaken, Relative, Names
<1>5. ArchiveWhole'
  BY SetupStays DEF Inv, ArchiveWhole, NoFiles
<1>6. OpenClaim'
  BY SetupStays DEF Inv, OpenClaim, OpenAgain, NoCrash
<1> QED
  BY <1>1, <1>2, <1>3, <1>4, <1>5, <1>6, NotRestoring, NotRestored DEF Inv, Restoring, FilesInv

LEMMA CreateStorageFileTreeInv ==
  ASSUME Inv, UNCHANGED setup, CreateStorageFileTree
  PROVE  Inv'
<1> DEFINE f == Head(todo)
<1> USE DEF CreateStorageFileTree, files, GoTo, Reply
<1>0. call = "backup" /\ code = "none" /\ process = "normal" /\ ~systemOpened /\ step = "tree"
  BY DEF Inv, CallAtStep, BackupTypeOK
<1>1. CASE /\ todo # <<>> /\ step' = "tree" /\ todo' = Tail(todo)
           /\ UNCHANGED <<files, moved, copied, process, systemOpened, call, code, before>>
           /\ storage[f] # Missing
  <2>0. /\ f \in Names /\ Tail(todo) \in Seq(Names) /\ ToSet(todo) = {f} \cup ToSet(Tail(todo))
        /\ IsInjective(Tail(todo))
    BY <1>1, HeadAndTail, Types DEF Inv, ListsInOrder
  <2>1. BackupTypeOK'
    BY <1>0, <1>1, <2>0, SetupStays DEF Inv, BackupTypeOK
  <2>2. CallAtStep' /\ OpenedDB' /\ NeverInMode' /\ ArchiveWhole' /\ OpenClaim'
    BY <1>0, <1>1, SetupStays DEF Inv, CallAtStep, OpenedDB, NeverInMode, Restoring, ArchiveWhole,
         NoFiles, OpenClaim, OpenAgain, NoCrash, Idle
  <2>3. ListsInOrder'
    BY <1>0, <1>1, <2>0 DEF Inv, ListsInOrder
  <2>4. TreeMade' /\ CopiesTaken'
    BY <1>0, <1>1, <2>0, SetupStays DEF Inv, TreeMade, CopiesTaken, CopyOf
  <2> QED
    BY <1>0, <1>1, <2>1, <2>2, <2>3, <2>4, NotRestoring, NotRestored DEF Inv, Restoring
<1>2. CASE /\ todo # <<>> /\ step' = "tree" /\ todo' = Tail(todo)
           /\ storage[f] = Missing /\ storage' = [storage EXCEPT ![f] = Empty]
           /\ UNCHANGED <<bak, saved, archive, moved, copied, process, systemOpened, call, code,
                         before>>
  <2>0. /\ f \in Names /\ Tail(todo) \in Seq(Names) /\ ToSet(todo) = {f} \cup ToSet(Tail(todo))
        /\ IsInjective(Tail(todo))
    BY <1>2, HeadAndTail, Types DEF Inv, ListsInOrder
  <2>1. BackupTypeOK'
    <3>1. storage' \in [File -> Content]
      BY <1>2, Types DEF Inv, Content
    <3> QED
      BY <1>0, <1>2, <2>0, <3>1, SetupStays DEF Inv, BackupTypeOK
  <2>2. CallAtStep' /\ OpenedDB' /\ NeverInMode' /\ ArchiveWhole' /\ OpenClaim'
    BY <1>0, <1>2, SetupStays DEF Inv, CallAtStep, OpenedDB, NeverInMode, Restoring, ArchiveWhole,
         NoFiles, OpenClaim, OpenAgain, NoCrash, Idle
  <2>3. ListsInOrder'
    BY <1>0, <1>2, <2>0 DEF Inv, ListsInOrder
  <2>4. TreeMade' /\ CopiesTaken'
    <3>1. storage \in [File -> Content] /\ f \in File /\ Relative \subseteq File
      BY <2>0, Types, SetupFacts DEF Inv
    <3> QED
      BY <1>0, <1>2, <2>0, <3>1, SetupStays DEF Inv, TreeMade, CopiesTaken, CopyOf
  <2> QED
    BY <1>0, <1>2, <2>1, <2>2, <2>3, <2>4, NotRestoring, NotRestored DEF Inv, Restoring
<1>3. CASE todo # <<>> /\ storage[f] = Missing /\ (f \in Absolute \/ May("tree"))
           /\ Reply("failed") /\ UNCHANGED <<files, systemOpened>>
  <2>1. BackupTypeOK'
    BY <1>0, <1>3, EmptyList, SetupStays DEF Inv, BackupTypeOK
  <2>2. CallAtStep' /\ OpenedDB' /\ NeverInMode' /\ ArchiveWhole'
    BY <1>0, <1>3, SetupStays DEF Inv, CallAtStep, OpenedDB, NeverInMode, Restoring, ArchiveWhole,
         NoFiles
  <2>3. OpenClaim'
    BY <1>0, <1>3, SetupStays DEF OpenClaim, May, Without
  <2>4. ListsInOrder'
    BY <1>0, <1>3, EmptyList DEF Inv, ListsInOrder
  <2>5. TreeMade' /\ CopiesTaken'
    BY <1>0, <1>3 DEF TreeMade, CopiesTaken
  <2> QED
    BY <1>0, <1>3, <2>1, <2>2, <2>3, <2>4, <2>5, NotRestoring, NotRestored DEF Inv, Restoring
<1>4. CASE todo = <<>>
  <2>1. BackupTypeOK'
    BY <1>0, <1>4, SetupFacts, SetupStays, Types DEF Inv, BackupTypeOK
  <2>2. CallAtStep' /\ OpenedDB' /\ NeverInMode' /\ ArchiveWhole' /\ OpenClaim'
    BY <1>0, <1>4, SetupStays DEF Inv, CallAtStep, OpenedDB, NeverInMode, Restoring, ArchiveWhole,
         NoFiles, OpenClaim, OpenAgain, NoCrash, Idle
  <2>3. ListsInOrder'
    BY <1>0, <1>4, SetupFacts DEF Inv, BackupTypeOK, ListsInOrder
  <2>4. TreeMade' /\ CopiesTaken'
    BY <1>0, <1>4, EmptyList, SetupStays DEF Inv, TreeMade, CopiesTaken, CopyOf, NoFiles, Relative, Names
  <2> QED
    BY <1>0, <1>4, <2>1, <2>2, <2>3, <2>4, NotRestoring, NotRestored DEF Inv, Restoring
<1> QED
  BY <1>1, <1>2, <1>3, <1>4 DEF CreateFile

LEMMA CopyToBackupDirInv ==
  ASSUME Inv, UNCHANGED setup, CopyToBackupDir
  PROVE  Inv'
<1> DEFINE f == Head(todo)
<1> USE DEF CopyToBackupDir, files
<1>0. /\ call = "backup" /\ code = "none" /\ process = "normal" /\ ~systemOpened /\ step = "copy"
      /\ storage \in [File -> Content] /\ saved \in [File -> Content] /\ DB \in File
  BY Types DEF Inv, CallAtStep, BackupTypeOK
<1>1. CASE todo # <<>> /\ Copy(f) /\ GoTo("copy") /\ todo' = Tail(todo)
           /\ UNCHANGED <<bak, archive, moved, copied>>
  <2> USE DEF GoTo
  <2>0. /\ f \in Names /\ Tail(todo) \in Seq(Names) /\ ToSet(todo) = {f} \cup ToSet(Tail(todo))
        /\ IsInjective(Tail(todo)) /\ f \in File /\ Relative \subseteq File
    BY <1>1, HeadAndTail, Types, SetupFacts DEF Inv, ListsInOrder
  <2>1. BackupTypeOK'
    <3>1. storage' \in [File -> Content] /\ saved' \in [File -> Content]
      BY <1>0, <1>1, <2>0 DEF Copy, Content
    <3> QED
      BY <1>0, <1>1, <2>0, <3>1, SetupStays DEF Inv, BackupTypeOK
  <2>2. CallAtStep' /\ OpenedDB' /\ NeverInMode' /\ ArchiveWhole' /\ OpenClaim'
    BY <1>0, <1>1, SetupStays DEF Inv, CallAtStep, OpenedDB, NeverInMode, Restoring, ArchiveWhole,
         NoFiles, OpenClaim, OpenAgain, NoCrash, Idle
  <2>3. ListsInOrder'
    BY <1>0, <1>1, <2>0 DEF Inv, ListsInOrder
  <2>4. TreeMade'
    BY <1>0, <1>1, <2>0, SetupStays DEF Inv, TreeMade, CopyOf, Copy, Relative
  <2>5. CopiesTaken'
    <3>1. \A g \in File : IF g \in Relative THEN g \in ToSet(todo) \/ saved[g] = CopyOf(g)
                                            ELSE saved[g] = Missing
      BY <1>0 DEF Inv, CopiesTaken
    <3>2. f \in Relative => storage[f] = CopyOf(f)
      BY <1>0 DEF Inv, TreeMade
    <3>3. f \notin Relative => f \in Absolute
      BY <2>0 DEF Relative
    <3>4. \A g \in File : IF g \in Relative THEN g \in ToSet(Tail(todo)) \/ saved'[g] = CopyOf(g)
                                            ELSE saved'[g] = Missing
      <4>1. CASE f \in Absolute
        BY <1>1, <2>0, <3>1, <4>1 DEF Copy, Relative
      <4>2. CASE f \notin Absolute
        BY <1>0, <1>1, <2>0, <3>1, <3>2, <3>3, <4>2 DEF Copy
      <4> QED
        BY <4>1, <4>2
    <3> QED
      BY <1>0, <1>1, <3>4, SetupStays DEF CopiesTaken, CopyOf
  <2> QED
    BY <1>0, <1>1, <2>1, <2>2, <2>3, <2>4, <2>5, NotRestoring, NotRestored DEF Inv, Restoring
<1>2. ASSUME Opens \/ OpenFails, UNCHANGED <<bak, saved, archive>>,
             \/ Reply("failed")
             \/ Reply("ok") /\ todo = <<>>
      PROVE  Inv'
  <2> USE DEF Reply
  <2>0. storage' \in [File -> Content] /\ (systemOpened' => storage'[DB] \notin {Missing, Empty})
    BY <1>0, <1>2, InitializedType DEF Opens, OpenFails
  <2>1. BackupTypeOK'
    BY <1>0, <1>2, <2>0, EmptyList, SetupStays DEF Inv, BackupTypeOK, Opens, OpenFails
  <2>2. CallAtStep' /\ OpenedDB' /\ NeverInMode' /\ ArchiveWhole'
    BY <1>0, <1>2, <2>0, SetupStays DEF Inv, CallAtStep, OpenedDB, NeverInMode, Restoring,
         ArchiveWhole, NoFiles
  <2>3. OpenClaim'
    BY <1>0, <1>2, SetupStays DEF Inv, OpenClaim, OpenAgain, NoCrash, May, Without, Opens, OpenFails
  <2>4. ListsInOrder'
    BY <1>0, <1>2, EmptyList DEF Inv, ListsInOrder
  <2>5. TreeMade' /\ CopiesTaken'
    BY <1>0, <1>2, EmptyList, SetupStays DEF Inv, TreeMade, CopiesTaken, CopyOf
  <2> QED
    BY <1>0, <1>2, <2>1, <2>2, <2>3, <2>4, <2>5, NotRestoring, NotRestored DEF Inv, Restoring
<1> QED
  BY <1>1, <1>2 DEF CopyFails

LEMMA BackupFinishedInv ==
  ASSUME Inv, UNCHANGED setup, BackupFinished
  PROVE  Inv'
<1> USE DEF BackupFinished, Forget
<1>1. BackupTypeOK'
  BY SetupStays, Types DEF Inv, BackupTypeOK
<1>2. CallAtStep' /\ OpenedDB' /\ NeverInMode' /\ ArchiveWhole' /\ ListsInOrder'
  BY SetupStays DEF Inv, BackupTypeOK, CallAtStep, OpenedDB, NeverInMode, Restoring, ArchiveWhole,
       NoFiles, ListsInOrder
<1>3. OpenClaim'
  BY SetupStays DEF Inv, BackupTypeOK, OpenClaim, OpenAgain, NoCrash, Idle
<1> QED
  BY <1>1, <1>2, <1>3, NotRestoring, NotRestored, NotBackingUp DEF Inv, Restoring

(* What a step that leaves the files and the call alone, and ends idle, keeps: all but what
   relates the process and the credentials system to it. *)
LEMMA FilesLeft ==
  ASSUME Inv, UNCHANGED <<setup, storage, bak, saved, archive, call, code, before>>,
         step' = "idle", todo' = <<>>, moved' = <<>>, copied' = <<>>,
         step # "idle" => code = "none"
  PROVE  /\ CallAtStep' /\ ListsInOrder' /\ TreeMade' /\ CopiesTaken' /\ ArchiveWhole'
         /\ LostClaim' /\ RestoreClaim'
<1>1. CallAtStep' /\ ListsInOrder' /\ TreeMade'
  BY EmptyList DEF CallAtStep, ListsInOrder, TreeMade, Restoring
<1>2. CopiesTaken' /\ ArchiveWhole'
  BY SetupStays DEF Inv, CopiesTaken, ArchiveWhole, NoFiles, CopyOf
<1>3. LostClaim' /\ RestoreClaim'
  BY SetupStays DEF Inv, LostClaim, RestoreClaim, NothingLost, RestoreAllOrNothing, Initialized
<1> QED
  BY <1>1, <1>2, <1>3

LEMMA ProcessEndsInv ==
  ASSUME Inv, UNCHANGED setup, NullCryptoManager \/ Crash \/ LastKeyRemovedWhileClosed
  PROVE  Inv'
<1> USE DEF NullCryptoManager, Crash, LastKeyRemovedWhileClosed, files
<1>1. BackupTypeOK'
  <2>1. UNCHANGED <<storage, bak, saved, archive, call, code, before>> /\ step' = "idle"
        /\ todo' = <<>> /\ moved' = <<>> /\ copied' = <<>>
        /\ process' \in {"off", "dead"} /\ systemOpened' = FALSE
    BY DEF Inv, BackupTypeOK, Idle
  <2> QED
    BY <2>1, EmptyList, SetupStays DEF Inv, BackupTypeOK
<1>2. OpenedDB' /\ NeverInMode'
  BY SetupStays DEF Inv, OpenedDB, NeverInMode
<1>3. OpenClaim'
  BY SetupStays DEF Inv, OpenClaim, OpenAgain, NoCrash, Idle, NeverInMode, Without
<1>4. /\ step' = "idle" /\ todo' = <<>> /\ moved' = <<>> /\ copied' = <<>>
      /\ UNCHANGED <<storage, bak, saved, archive, call, code, before>>
      /\ (step # "idle" => code = "none")
  BY DEF Inv, BackupTypeOK, CallAtStep, Idle
<1> QED
  BY <1>1, <1>2, <1>3, <1>4, FilesLeft, NotRestoring DEF Inv, Restoring

LEMMA StartInv ==
  ASSUME Inv, UNCHANGED setup, Start
  PROVE  Inv'
<1> USE DEF Start, Opens, OpenFails
<1>0. /\ storage \in [File -> Content] /\ DB \in File /\ storage' \in [File -> Content]
      /\ step = "idle" /\ UNCHANGED <<bak, saved, archive, call, step, todo, moved, copied, code, before>>
      /\ (systemOpened' => storage'[DB] \notin {Missing, Empty})
      /\ archive \in [File -> Content] /\ before \in [File -> Content]
      /\ storage' = storage \/ storage' = Initialized(storage)
  BY Types, InitializedType DEF Inv, BackupTypeOK
<1>1. BackupTypeOK'
  <2>1. process' \in {"normal", "backup"} /\ systemOpened' \in BOOLEAN
        /\ (systemOpened' => process' = "normal")
    <3>1. process # "normal" /\ systemOpened = FALSE
      BY DEF Inv, BackupTypeOK
    <3> QED
      BY <3>1
  <2> HIDE DEF Start, Opens, OpenFails
  <2> QED
    BY <1>0, <2>1, SetupStays DEF Inv, BackupTypeOK
<1>2. CallAtStep' /\ OpenedDB' /\ NeverInMode' /\ ListsInOrder' /\ TreeMade' /\ CopiesTaken' /\ ArchiveWhole'
  BY <1>0, SetupStays DEF Inv, CallAtStep, OpenedDB, NeverInMode, ListsInOrder, TreeMade, CopiesTaken,
       ArchiveWhole, CopyOf, NoFiles, Restoring, Without, May
<1>3. LostClaim'
  <2> SUFFICES ASSUME Without({"unbrought"}), call = "restore"
               PROVE  NothingLost'
    BY <1>0, SetupStays DEF LostClaim, NothingLost
  <2>1. CASE \A f \in Relative : before[f] \in Version => before[f] \in {storage[f], bak[f]}
    <3>1. \A f \in Relative : before[f] \in Version => before[f] \in {storage'[f], bak[f]}
      BY <1>0, <2>1, InitializedType, BackupAssumption, SetupFacts DEF Initialized, Inv, BackupTypeOK
    <3> QED
      BY <1>0, <3>1, SetupStays DEF NothingLost
  <2>2. CASE \A f \in Relative : Initialized(storage)[f] = Initialized(archive)[f]
    <3>1. Initialized(storage') = Initialized(storage)
      BY <1>0, InitializedType
    <3> QED
      BY <1>0, <2>2, <3>1, SetupStays DEF NothingLost, Initialized
  <2> QED
    BY <2>1, <2>2 DEF Inv, LostClaim, NothingLost
<1>4. RestoreClaim'
  <2> SUFFICES ASSUME Without({"unbrought", "back", "open"}), RestoreAllOrNothing
               PROVE  RestoreAllOrNothing'
    BY <1>0, SetupStays DEF Inv, RestoreClaim
  <2>1. CASE call = "restore" /\ code = "ok"
    <3>1. storage[DB] = Initialized(archive)[DB]
      BY <2>1, SetupFacts DEF RestoreAllOrNothing, Inv, BackupTypeOK
    <3>2. storage' = storage
      BY <1>0, <3>1, InitializedType
    <3> QED
      BY <1>0, <2>1, <3>2, SetupStays DEF RestoreAllOrNothing, Initialized
  <2>2. CASE call = "restore" /\ code = "failed"
    <3>1. storage' = storage
      BY <1>0, <2>2, InitializedType DEF RestoreAllOrNothing
    <3> QED
      BY <1>0, <2>2, <3>1 DEF RestoreAllOrNothing, Initialized
  <2> QED
    BY <1>0, <2>1, <2>2 DEF RestoreAllOrNothing
<1>5. OpenClaim'
  BY <1>0, SetupStays DEF OpenClaim, OpenAgain, NoCrash, Idle, Without, May
<1> QED
  BY <1>0, <1>1, <1>2, <1>3, <1>4, <1>5, NotRestoring DEF Inv, Restoring

LEMMA StoreInv ==
  ASSUME Inv, UNCHANGED setup, NEW v \in Version, Store(v)
  PROVE  Inv'
<1> USE DEF Store, Forget, Idle
<1>1. storage' \in [File -> Content] /\ storage'[DB] = v
  BY Types DEF Inv, Content, File
<1>2. BackupTypeOK'
  BY <1>1, SetupStays, Types DEF Inv, BackupTypeOK
<1>3. CallAtStep' /\ OpenedDB' /\ NeverInMode' /\ ArchiveWhole' /\ ListsInOrder'
  BY <1>1, SetupStays, BackupAssumption DEF Inv, BackupTypeOK, CallAtStep, OpenedDB, NeverInMode,
       Restoring, ArchiveWhole, NoFiles, ListsInOrder
<1>4. OpenClaim'
  BY SetupStays DEF OpenClaim, OpenAgain, NoCrash
<1> QED
  BY <1>2, <1>3, <1>4, NotRestoring, NotRestored, NotBackingUp DEF Inv, Restoring

LEMMA TakeAwayInv ==
  ASSUME Inv, UNCHANGED setup, TakeAway
  PROVE  Inv'
<1> USE DEF TakeAway, Idle
<1>1. BackupTypeOK'
  BY SetupStays DEF Inv, BackupTypeOK
<1>2. CallAtStep' /\ OpenedDB' /\ NeverInMode' /\ ListsInOrder' /\ TreeMade' /\ OpenClaim'
  BY SetupStays DEF Inv, BackupTypeOK, CallAtStep, OpenedDB, NeverInMode, Restoring, ListsInOrder,
       TreeMade, OpenClaim, OpenAgain, NoCrash
<1>3. \A f \in File : IF f \in Relative THEN saved[f] = CopyOf(f) ELSE saved[f] = Missing
  BY DEF Inv, CopiesTaken
<1>4. CopiesTaken'
  BY <1>3, SetupStays DEF CopiesTaken, CopyOf
<1>5. ArchiveWhole'
  BY <1>3, SetupStays, BackupAssumption DEF ArchiveWhole, CopyOf
<1> QED
  BY <1>1, <1>2, <1>4, <1>5, NotRestoring, NotRestored DEF Inv, Restoring

LEMMA BringBackInv ==
  ASSUME Inv, UNCHANGED setup, BringBack
  PROVE  Inv'
<1> USE DEF BringBack, Forget, Idle
<1>1. BackupTypeOK'
  BY SetupStays, Types DEF Inv, BackupTypeOK
<1>2. CallAtStep' /\ OpenedDB' /\ NeverInMode' /\ ArchiveWhole' /\ ListsInOrder' /\ OpenClaim'
  BY SetupStays DEF Inv, BackupTypeOK, CallAtStep, OpenedDB, NeverInMode, Restoring, ArchiveWhole,
       NoFiles, ListsInOrder, OpenClaim, OpenAgain, NoCrash
<1> QED
  BY <1>1, <1>2, NotRestoring, NotRestored, NotBackingUp DEF Inv, Restoring

-----------------------------------------------------------------------------
(* The steps of a restore *)

LEMMA RestoreFinishedInv ==
  ASSUME Inv, UNCHANGED setup, RestoreFinished
  PROVE  Inv'
<1> USE DEF RestoreFinished, files, Close, Idle
<1>0. /\ moved = <<>> /\ copied = <<>> /\ todo = <<>> /\ step = "idle" /\ process = "normal"
      /\ moved' = <<>> /\ copied' = <<>> /\ process' = "normal" /\ ~systemOpened'
      /\ call' = "restore" /\ before' = storage /\ UNCHANGED files
      /\ \/ step' = "move" /\ todo' = Listed /\ code' = "none"
         \/ step' = "idle" /\ todo' = <<>> /\ code' = "failed" /\ systemOpened /\ May("umount")
  BY DEF Inv, BackupTypeOK
<1>1. BackupTypeOK'
  BY <1>0, SetupFacts, SetupStays, EmptyList DEF Inv, BackupTypeOK
<1>2. CallAtStep' /\ OpenedDB' /\ NeverInMode' /\ ArchiveWhole'
  BY <1>0, SetupStays DEF Inv, CallAtStep, OpenedDB, NeverInMode, Restoring, ArchiveWhole, NoFiles
<1>3. ListsInOrder'
  BY <1>0, SetupFacts, EmptyList DEF Inv, BackupTypeOK, ListsInOrder
<1>4. BackupBrought'
  BY <1>0, SetupStays DEF BackupBrought, Restoring, Without, May, NoFiles
<1>5. Undoable' /\ Replaced'
  BY <1>0, SetupFacts, SetupStays, EmptyList DEF Inv, BackupTypeOK, Undoable, UndoableFile, Undone, Replaced, Names
<1>6. LostClaim'
  BY <1>0, SetupStays DEF LostClaim, NothingLost
<1>7. RestoreClaim'
  <2>1. systemOpened => Initialized(storage) = storage
    BY Types, InitializedType DEF Inv, OpenedDB
  <2> QED
    BY <1>0, <2>1 DEF RestoreClaim, RestoreAllOrNothing, Initialized
<1>8. OpenClaim'
  BY <1>0, SetupStays DEF Inv, OpenClaim, OpenAgain, NoCrash, Without, May
<1> QED
  BY <1>0, <1>1, <1>2, <1>3, <1>4, <1>5, <1>6, <1>7, <1>8, NotBackingUp DEF Inv

(* As long as a restore can be undone nothing is lost. *)
LEMMA UndoableLosesNothing ==
  ASSUME setup \in Setups, UNCHANGED setup, step' \in {"move", "fetch", "recover"}, Undoable'
  PROVE  LostClaim'
BY SetupFacts, SetupStays, BackupAssumption DEF Undoable, UndoableFile, Undone, LostClaim, NothingLost

(* What a step within a restore keeps that leaves all but the files to it *)
LEMMA WithinRestore ==
  ASSUME Inv, UNCHANGED <<setup, process, systemOpened, call, code, before, archive, saved>>,
         step \in Restoring, step' \in Restoring
  PROVE  /\ CallAtStep' /\ OpenedDB' /\ NeverInMode' /\ TreeMade' /\ CopiesTaken'
         /\ ArchiveWhole' /\ BackupBrought' /\ RestoreClaim' /\ OpenClaim'
<1>1. CallAtStep' /\ call' = "restore" /\ code' = "none" /\ ~systemOpened /\ step' # "idle" /\ step # "idle"
  BY DEF Inv, BackupTypeOK, CallAtStep, Restoring
<1>2. OpenedDB' /\ NeverInMode' /\ TreeMade' /\ CopiesTaken' /\ ArchiveWhole' /\ BackupBrought'
  BY <1>1, NotBackingUp, SetupStays DEF Inv, OpenedDB, NeverInMode, ArchiveWhole, NoFiles, BackupBrought
<1>3. RestoreClaim' /\ OpenClaim'
  BY <1>1, SetupStays DEF Inv, RestoreClaim, RestoreAllOrNothing, OpenClaim, OpenAgain, Idle, NoCrash
<1> QED
  BY <1>1, <1>2, <1>3

LEMMA MoveTargetInv ==
  ASSUME Inv, UNCHANGED setup, MoveTarget
  PROVE  Inv'
<1> DEFINE f == Head(todo)
<1> USE DEF MoveTarget, files, GoTo
<1>0. /\ step = "move" /\ step \in Restoring /\ process = "normal" /\ ~systemOpened
      /\ storage \in [File -> Content] /\ bak \in [File -> Content] /\ moved \in Seq(Names)
      /\ copied \in Seq(Names) /\ todo \in Seq(Names) /\ Relative \subseteq Names /\ Names \subseteq File
      /\ UNCHANGED <<process, systemOpened, call, code, before, archive, saved, todo, copied>>
  BY Types, SetupFacts DEF Inv, BackupTypeOK, Restoring
<1>1. CASE todo = <<>>
  <2>0. step' = "clean" /\ UNCHANGED <<storage, bak, moved>> /\ step' \in Restoring
    BY <1>1 DEF Restoring
  <2>1. BackupTypeOK' /\ ListsInOrder'
    BY <1>0, <2>0, SetupStays DEF Inv, BackupTypeOK, ListsInOrder
  <2>2. Undoable' /\ Replaced'
    BY <1>0, <2>0, SetupStays DEF Inv, Undoable, Replaced
  <2>3. LostClaim'
    BY <1>0, <2>0, SetupStays DEF Inv, LostClaim, NothingLost, Initialized
  <2> QED
    BY <1>0, <2>0, <2>1, <2>2, <2>3, WithinRestore DEF Inv
<1>2. CASE todo # <<>>
  <2>0. /\ step' = "fetch" /\ step' \in Restoring
        /\ f \in Names /\ ToSet(todo) = {f} \cup ToSet(Tail(todo)) /\ f \notin ToSet(Tail(todo))
        /\ f \notin ToSet(moved) /\ f \notin ToSet(copied)
        /\ RenameTarget(f) \/ UNCHANGED <<storage, bak, moved>>
    BY <1>0, <1>2, HeadAndTail DEF Inv, ListsInOrder, Restoring
  <2>1. RenameTarget(f) => ToSet(moved') = ToSet(moved) \cup {f} /\ IsInjective(moved') /\ moved' \in Seq(Names)
    BY <1>0, <2>0, AppendToSet DEF RenameTarget, Inv, ListsInOrder
  <2>2. BackupTypeOK'
    <3>1. storage' \in [File -> Content] /\ bak' \in [File -> Content]
      BY <1>0, <2>0 DEF RenameTarget, Content
    <3> HIDE DEF MoveTarget
    <3> QED
      BY <1>0, <2>0, <2>1, <3>1, SetupStays DEF Inv, BackupTypeOK
  <2>3. ListsInOrder'
    BY <1>0, <1>2, <2>0, <2>1 DEF Inv, ListsInOrder
  <2>4. Undoable'
    <3>1. \A g \in File : UndoableFile(g) /\ storage[f] = before[f]
      BY <1>0, <2>0 DEF Inv, Undoable, UndoableFile, Undone
    <3>2. ASSUME NEW g \in File
          PROVE  UndoableFile(g)'
      BY <1>0, <2>0, <2>1, <3>1 DEF UndoableFile, Undone, RenameTarget
    <3> QED
      BY <3>2 DEF Undoable
  <2>5. Replaced'
    BY <1>0, <2>0, SetupStays DEF Inv, Replaced, RenameTarget
  <2>6. LostClaim'
    BY <2>0, <2>4, UndoableLosesNothing, Types DEF Inv
  <2> QED
    BY <1>0, <2>0, <2>2, <2>3, <2>4, <2>5, <2>6, WithinRestore DEF Inv
<1> QED
  BY <1>1, <1>2

LEMMA CopyFromBackupDirInv ==
  ASSUME Inv, UNCHANGED setup, CopyFromBackupDir
  PROVE  Inv'
<1> DEFINE f == Head(todo)
           source == IF f \in Absolute THEN Missing ELSE saved[f]
<1> USE DEF CopyFromBackupDir, files, GoTo
<1>0. /\ step = "fetch" /\ step \in Restoring /\ step' \in Restoring /\ process = "normal" /\ ~systemOpened
      /\ storage \in [File -> Content] /\ bak \in [File -> Content] /\ saved \in [File -> Content]
      /\ copied \in Seq(Names) /\ todo \in Seq(Names) /\ todo # <<>>
      /\ Relative \subseteq Names /\ Names \subseteq File
      /\ UNCHANGED <<process, systemOpened, call, code, before, archive, saved, bak, moved>>
  BY Types, SetupFacts DEF Inv, BackupTypeOK, Restoring, ListsInOrder
<1>1. /\ f \in Names /\ f \in File /\ Tail(todo) \in Seq(Names)
      /\ ToSet(todo) = {f} \cup ToSet(Tail(todo)) /\ f \notin ToSet(Tail(todo))
      /\ IsInjective(Tail(todo)) /\ f \notin ToSet(copied)
      /\ ToSet(Tail(todo)) \cap (ToSet(moved) \cup ToSet(copied)) = {}
  BY <1>0, HeadAndTail DEF Inv, ListsInOrder
<1>2. \A g \in File : UndoableFile(g)
  BY <1>0 DEF Inv, Undoable
<1>3. CASE source = Missing /\ step' = "move" /\ todo' = Tail(todo) /\ UNCHANGED <<storage, copied>>
  <2>1. BackupTypeOK' /\ ListsInOrder'
    BY <1>0, <1>1, <1>3, SetupStays DEF Inv, BackupTypeOK, ListsInOrder
  <2>2. Undoable'
    BY <1>0, <1>2, <1>3 DEF Undoable, UndoableFile, Undone
  <2>3. Replaced'
    <3>1. Without({"unbrought"}) => f \notin Relative
      BY <1>0, <1>3 DEF Inv, BackupBrought, ArchiveWhole, Relative
    <3> QED
      BY <1>0, <1>1, <1>3, <3>1, SetupStays DEF Inv, Replaced
  <2>4. LostClaim'
    BY <1>3, <2>2, UndoableLosesNothing, Types DEF Inv
  <2> QED
    BY <1>0, <2>1, <2>2, <2>3, <2>4, WithinRestore DEF Inv
<1>4. CASE /\ source # Missing /\ storage[f] = Missing /\ storage' = [storage EXCEPT ![f] = source]
           /\ copied' = Append(copied, f) /\ step' = "move" /\ todo' = Tail(todo)
  <2>0. ToSet(copied') = ToSet(copied) \cup {f} /\ copied' \in Seq(Names) /\ source = saved[f]
    BY <1>0, <1>1, <1>4, AppendToSet, AppendProperties
  <2>1. BackupTypeOK'
    <3>1. storage' \in [File -> Content]
      BY <1>0, <1>1, <1>4, <2>0
    <3> QED
      BY <1>0, <1>1, <1>4, <2>0, <3>1, SetupStays DEF Inv, BackupTypeOK
  <2>2. ListsInOrder'
    BY <1>0, <1>1, <1>4, <2>0 DEF Inv, ListsInOrder
  <2>3. Undoable'
    <3>1. ASSUME NEW g \in File
          PROVE  UndoableFile(g)'
      BY <1>0, <1>1, <1>2, <1>4, <2>0 DEF UndoableFile, Undone
    <3> QED
      BY <3>1 DEF Undoable
  <2>4. Replaced'
    <3>1. Without({"unbrought"}) => storage'[f] = archive[f]
      BY <1>0, <1>1, <1>4, <2>0 DEF Inv, BackupBrought
    <3> QED
      BY <1>0, <1>1, <1>4, <3>1, SetupStays DEF Inv, Replaced
  <2>5. LostClaim'
    BY <1>4, <2>3, UndoableLosesNothing, Types DEF Inv
  <2> QED
    BY <1>0, <2>1, <2>2, <2>3, <2>4, <2>5, WithinRestore DEF Inv
<1>5. CASE step' = "recover" /\ UNCHANGED <<storage, todo, copied>>
  <2>1. BackupTypeOK' /\ ListsInOrder'
    BY <1>0, <1>5, SetupStays DEF Inv, BackupTypeOK, ListsInOrder
  <2>2. Undoable' /\ Replaced'
    BY <1>0, <1>2, <1>5 DEF Undoable, UndoableFile, Undone, Replaced
  <2>3. LostClaim'
    BY <1>5, <2>2, UndoableLosesNothing, Types DEF Inv
  <2> QED
    BY <1>0, <2>1, <2>2, <2>3, WithinRestore DEF Inv
<1> QED
  BY <1>3, <1>4, <1>5

LEMMA RecoverInv ==
  ASSUME Inv, UNCHANGED setup, Recover
  PROVE  Inv'
<1> USE DEF Recover, GoTo
<1>0. /\ step = "recover" /\ step \in Restoring /\ process = "normal" /\ ~systemOpened
      /\ call = "restore" /\ code = "none"
      /\ storage \in [File -> Content] /\ bak \in [File -> Content] /\ before \in [File -> Content]
      /\ copied \in Seq(Names) /\ moved \in Seq(Names) /\ Names \subseteq File /\ Missing \in Content
      /\ UNCHANGED <<call, before, archive, saved>> /\ DB \in File
  BY Types, SetupFacts DEF Inv, BackupTypeOK, Restoring, CallAtStep, RemoveCopied, RenameBack, Reply, Content
<1>1. \A g \in File : UndoableFile(g)
  BY <1>0 DEF Inv, Undoable
<1>2. CASE RemoveCopied
  <2> DEFINE f == Head(copied)
  <2>0. /\ step' = "recover" /\ step' \in Restoring /\ storage' = [storage EXCEPT ![f] = Missing]
        /\ copied' = Tail(copied) /\ copied' \in Seq(Names) /\ f \in File
        /\ ToSet(copied) = {f} \cup ToSet(copied')
        /\ UNCHANGED <<process, systemOpened, code, bak, todo, moved>>
    BY <1>0, <1>2, HeadAndTail DEF RemoveCopied, Restoring
  <2>1. BackupTypeOK'
    <3>1. storage' \in [File -> Content]
      BY <1>0, <2>0
    <3> HIDE DEF Recover
    <3> QED
      BY <1>0, <2>0, <3>1, SetupStays DEF Inv, BackupTypeOK
  <2>2. ListsInOrder' /\ Replaced'
    BY <1>0, <2>0 DEF Inv, ListsInOrder, Replaced
  <2>3. Undoable'
    <3>1. ASSUME NEW g \in File
          PROVE  UndoableFile(g)'
      BY <1>0, <1>1, <2>0, SetupStays DEF UndoableFile, Undone
    <3> QED
      BY <3>1 DEF Undoable
  <2>4. LostClaim'
    BY <2>0, <2>3, UndoableLosesNothing, Types DEF Inv
  <2> QED
    BY <1>0, <2>0, <2>1, <2>2, <2>3, <2>4, WithinRestore DEF Inv
<1>3. CASE RenameBack
  <2> DEFINE f == Head(moved)
  <2>0. /\ step' = "recover" /\ step' \in Restoring /\ copied = <<>> /\ ToSet(copied) = {}
        /\ moved' = Tail(moved) /\ moved' \in Seq(Names) /\ f \in File
        /\ ToSet(moved) = {f} \cup ToSet(moved') /\ f \notin ToSet(moved') /\ IsInjective(moved')
        /\ UNCHANGED <<process, systemOpened, code, todo, copied>>
    BY <1>0, <1>3, HeadAndTail, EmptyList DEF RenameBack, Restoring, Inv, ListsInOrder
  <2>1. \/ storage' = [storage EXCEPT ![f] = bak[f]] /\ bak' = [bak EXCEPT ![f] = Missing]
        \/ (storage[f] # Missing \/ May("back")) /\ UNCHANGED <<storage, bak>>
    BY <1>3 DEF RenameBack
  <2>2. BackupTypeOK'
    <3>1. storage' \in [File -> Content] /\ bak' \in [File -> Content]
      BY <1>0, <2>0, <2>1
    <3> HIDE DEF Recover
    <3> QED
      BY <1>0, <2>0, <3>1, SetupStays DEF Inv, BackupTypeOK
  <2>3. ListsInOrder' /\ Replaced'
    BY <1>0, <2>0 DEF Inv, ListsInOrder, Replaced
  <2>4. Undoable'
    <3>1. ASSUME NEW g \in File
          PROVE  UndoableFile(g)'
      <4>1. storage[f] = Missing /\ bak[f] = before[f]
        BY <1>1, <2>0 DEF UndoableFile
      <4>2. CASE g = f
        BY <1>0, <2>0, <2>1, <4>1, <4>2, SetupStays DEF UndoableFile, Undone
      <4>3. CASE g # f
        <5>1. storage'[g] = storage[g] /\ bak'[g] = bak[g]
          BY <1>0, <2>0, <2>1, <4>3
        <5> QED
          BY <1>0, <1>1, <2>0, <4>3, <5>1, SetupStays DEF UndoableFile, Undone
      <4> QED
        BY <4>2, <4>3
    <3> QED
      BY <3>1 DEF Undoable
  <2>5. LostClaim'
    BY <2>0, <2>4, UndoableLosesNothing, Types DEF Inv
  <2> QED
    BY <1>0, <2>0, <2>2, <2>3, <2>4, <2>5, WithinRestore DEF Inv
<1>4. ASSUME copied = <<>>, moved = <<>>, Opens \/ OpenFails, Reply("failed"),
             UNCHANGED <<bak, saved, archive>>
      PROVE  Inv'
  <2> USE DEF Reply
  <2>0. /\ storage' \in [File -> Content] /\ (systemOpened' => storage'[DB] \notin {Missing, Empty})
        /\ storage' = storage \/ storage' = Initialized(storage)
    BY <1>0, <1>4, InitializedType DEF Opens, OpenFails
  <2>1. BackupTypeOK'
    BY <1>0, <1>4, <2>0, EmptyList, SetupStays DEF Inv, BackupTypeOK, Opens, OpenFails
  <2>2. CallAtStep' /\ OpenedDB' /\ NeverInMode' /\ ArchiveWhole' /\ ListsInOrder'
    BY <1>0, <1>4, <2>0, EmptyList, SetupStays DEF Inv, CallAtStep, OpenedDB, NeverInMode, Restoring,
         ArchiveWhole, NoFiles, ListsInOrder
  <2>3. OpenClaim'
    BY <1>0, <1>4, SetupStays DEF Inv, OpenClaim, OpenAgain, NoCrash, May, Without, Opens, OpenFails
  <2>4. \A g \in File : Undone(g)
    BY <1>1, <1>4, EmptyList DEF UndoableFile
  <2>5. RestoreClaim'
    <3> SUFFICES ASSUME Without({"unbrought", "back", "open"})
                 PROVE  storage' = Initialized(before)
      BY <1>0, <1>4, SetupStays DEF RestoreClaim, RestoreAllOrNothing, Initialized
    <3>1. \A g \in File : storage[g] = before[g]
      BY <2>4 DEF Undone, May, Without
    <3>2. storage = before
      BY <1>0, <3>1
    <3> QED
      BY <1>4, <3>2 DEF Opens, OpenFails, May, Without
  <2>6. LostClaim'
    <3>1. \A g \in File : before[g] \in Version => before[g] \in {storage'[g], bak[g]}
      BY <1>0, <2>0, <2>4, InitializedType, BackupAssumption DEF Undone, Initialized
    <3> QED
      BY <1>0, <1>4, <3>1, SetupFacts, SetupStays, Types DEF LostClaim, NothingLost, Inv
  <2> QED
    BY <1>0, <1>4, <2>1, <2>2, <2>3, <2>5, <2>6, NotRestoring, NotBackingUp DEF Inv, Restoring
<1> QED
  BY <1>2, <1>3, <1>4

LEMMA CleanInv ==
  ASSUME Inv, UNCHANGED setup, Clean
  PROVE  Inv'
<1> USE DEF Clean, GoTo
<1>0. /\ step = "clean" /\ step \in Restoring /\ process = "normal" /\ ~systemOpened
      /\ call = "restore" /\ code = "none" /\ todo \in Seq(Names)
      /\ storage \in [File -> Content] /\ bak \in [File -> Content] /\ archive \in [File -> Content]
      /\ moved \in Seq(Names) /\ Names \subseteq File /\ Missing \in Content /\ DB \in Relative
      /\ Relative \subseteq Names /\ UNCHANGED <<call, before, archive>> /\ DB \in File
  BY Types, SetupFacts DEF Inv, BackupTypeOK, Restoring, CallAtStep, Reply, Content
<1>1. Without({"unbrought"}) => \A f \in Relative : storage[f] = archive[f]
  BY <1>0, EmptyList DEF Inv, Replaced, ListsInOrder
<1>2. CASE moved # <<>> /\ bak' = [bak EXCEPT ![Head(moved)] = Missing] /\ moved' = Tail(moved)
           /\ step' = "clean" /\ UNCHANGED <<storage, saved, archive, todo, copied>>
           /\ UNCHANGED <<process, systemOpened, code>>
  <2>0. Tail(moved) \in Seq(Names) /\ IsInjective(Tail(moved)) /\ Head(moved) \in File
        /\ bak' \in [File -> Content]
    BY <1>0, <1>2, HeadAndTail DEF Inv, ListsInOrder
  <2>1. BackupTypeOK'
    <3> HIDE DEF Clean
    <3> QED
      BY <1>0, <1>2, <2>0, SetupStays DEF Inv, BackupTypeOK
  <2>2. ListsInOrder' /\ Undoable' /\ Replaced'
    BY <1>0, <1>2, <2>0, SetupStays DEF Inv, ListsInOrder, Undoable, Replaced
  <2>3. LostClaim'
    <3>1. Without({"unbrought"}) => \A f \in Relative : Initialized(storage)[f] = Initialized(archive)[f]
      BY <1>0, <1>1, InitializedAgrees
    <3> QED
      BY <1>2, <3>1, SetupStays DEF LostClaim, NothingLost, Initialized
  <2> QED
    BY <1>0, <1>2, <2>1, <2>2, <2>3, WithinRestore DEF Inv
<1>3. ASSUME (Opens /\ Reply("ok")) \/ (OpenFails /\ Reply("failed")), saved' = NoFiles,
             UNCHANGED <<bak, archive>>
      PROVE  Inv'
  <2> USE DEF Reply
  <2>0. /\ storage' \in [File -> Content] /\ (systemOpened' => storage'[DB] \notin {Missing, Empty})
        /\ storage' = storage \/ storage' = Initialized(storage)
        /\ Initialized(storage') = Initialized(storage)
    BY <1>0, <1>3, InitializedType DEF Opens, OpenFails
  <2>1. BackupTypeOK'
    BY <1>0, <1>3, <2>0, EmptyList, SetupStays, Types DEF Inv, BackupTypeOK, Opens, OpenFails
  <2>2. CallAtStep' /\ OpenedDB' /\ NeverInMode' /\ ArchiveWhole' /\ ListsInOrder'
    BY <1>0, <1>3, <2>0, EmptyList, SetupStays DEF Inv, CallAtStep, OpenedDB, NeverInMode, Restoring,
         ArchiveWhole, NoFiles, ListsInOrder
  <2>3. OpenClaim'
    BY <1>0, <1>3, SetupStays DEF Inv, OpenClaim, OpenAgain, NoCrash, May, Without, Opens, OpenFails
  <2>4. Without({"unbrought"}) => \A f \in Relative : Initialized(storage)[f] = Initialized(archive)[f]
    BY <1>0, <1>1, InitializedAgrees
  <2>5. RestoreClaim'
    <3> SUFFICES ASSUME Without({"unbrought", "back", "open"})
                 PROVE  RestoreAllOrNothing'
      BY <1>0, SetupStays DEF RestoreClaim
    <3>1. storage' = Initialized(storage) /\ code' = "ok" /\ Without({"unbrought"})
      BY <1>3 DEF Opens, OpenFails, May, Without
    <3> QED
      BY <1>3, <2>4, <3>1, SetupStays DEF RestoreAllOrNothing, Initialized
  <2>6. LostClaim'
    BY <1>0, <1>3, <2>0, <2>4, SetupStays DEF LostClaim, NothingLost, Initialized
  <2> QED
    BY <1>0, <1>3, <2>1, <2>2, <2>3, <2>5, <2>6, NotRestoring, NotBackingUp DEF Inv, Restoring
<1> QED
  BY <1>2, <1>3

LEMMA NextInv == Inv /\ [BackupNext]_backupVars => Inv'
<1> SUFFICES ASSUME Inv, [BackupNext]_backupVars PROVE Inv'
  OBVIOUS
<1>1. CASE BackupNext
  BY <1>1, BackupStartsInv, CreateStorageFileTreeInv, CopyToBackupDirInv, BackupFinishedInv,
     RestoreFinishedInv, MoveTargetInv, CopyFromBackupDirInv, RecoverInv, CleanInv, ProcessEndsInv,
     StartInv, StoreInv, TakeAwayInv, BringBackInv DEF BackupNext
<1>2. CASE UNCHANGED backupVars
  BY <1>2 DEF backupVars, Inv, BackupTypeOK, CallAtStep, OpenedDB, NeverInMode, ListsInOrder, TreeMade,
     CopiesTaken, ArchiveWhole, BackupBrought, Undoable, UndoableFile, Undone, Replaced, LostClaim,
     NothingLost, RestoreClaim, RestoreAllOrNothing, OpenClaim, OpenAgain, NoCrash, Idle, Without,
     May, Relative, Absolute, Names, Listed, CopyOf, Initialized
<1> QED
  BY <1>1, <1>2

-----------------------------------------------------------------------------
(* For any list of files, whatever fails and wherever the daemon is killed: a backup that is reported
   done holds each file of the list as it was; from no moment of a restore are files lost
   that are not replaced by those of the backup; a restore that says that it failed has changed
   nothing, and one that says that it is done has put all files in place; and the credentials
   system is open after either. Each is claimed as long as the disorder that breaks it is not
   there. *)
THEOREM BackupsAreCopies == BackupSpec => []FilesInv
<1>1. Inv => FilesInv
  <2> SUFFICES ASSUME Inv PROVE FilesInv
    OBVIOUS
  <2>1. BackupFaithful
    BY SetupFacts DEF Inv, BackupTypeOK, CopiesTaken, BackupFaithful, BackupHolds
  <2> QED
    BY <2>1 DEF Inv, FilesInv, LostClaim, RestoreClaim, OpenClaim
<1> QED
  BY <1>1, InitInv, NextInv, PTL DEF BackupSpec

(* While a backup is taken, and after it, the files that are in the storage stay as they are,
   whatever fails, but for those that are listed by an absolute path. *)
THEOREM BackupReadsOnly == BackupSpec => BackupOnlyReads
<1>1. Inv /\ [BackupNext]_backupVars => [OnlyRead]_backupVars
  <2> SUFFICES ASSUME Inv, BackupNext, call = "backup", call' = "backup",
                      NEW f \in File \ Absolute, storage[f] \in Version
               PROVE  storage'[f] = storage[f]
    BY DEF OnlyRead
  <2>0. storage \in [File -> Content] /\ DB \in File /\ step \notin Restoring
        /\ storage[f] \notin {Missing, Empty}
    BY Types, BackupAssumption DEF Inv, CallAtStep
  <2>1. Opens => storage'[f] = storage[f]
    BY <2>0 DEF Opens, Initialized
  <2>2. CASE CreateStorageFileTree
    BY <2>0, <2>2 DEF CreateStorageFileTree, CreateFile, files
  <2>3. CASE CopyToBackupDir
    BY <2>0, <2>1, <2>3 DEF CopyToBackupDir, Copy, CopyFails, OpenFails
  <2>4. CASE Start
    BY <2>1, <2>4 DEF Start, OpenFails
  <2>5. CASE BackupStarts \/ NullCryptoManager \/ Crash \/ LastKeyRemovedWhileClosed \/ TakeAway
    BY <2>5 DEF BackupStarts, NullCryptoManager, Crash, LastKeyRemovedWhileClosed, TakeAway, files
  <2>6. CASE BackupFinished \/ BringBack \/ RestoreFinished \/ \E v \in Version : Store(v)
    BY <2>6 DEF BackupFinished, BringBack, RestoreFinished, Store, Forget
  <2>7. CASE MoveTarget \/ CopyFromBackupDir \/ Recover \/ Clean
    BY <2>0, <2>7 DEF MoveTarget, CopyFromBackupDir, Recover, Clean, Restoring
  <2> QED
    BY <2>2, <2>3, <2>4, <2>5, <2>6, <2>7 DEF BackupNext
<1> QED
  BY <1>1, InitInv, NextInv, PTL DEF BackupSpec, BackupOnlyReads
===============================================================================
