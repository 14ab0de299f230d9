----------------------------- MODULE MetaDataDB -----------------------------
(***************************************************************************)
(* MetaDataDB: the SQL database of the identities, their methods, access   *)
(* control lists, owners, realms and references.  An operation is a series *)
(* of statements, each of which may fail, with or without a transaction    *)
(* around it; triggers stand in for foreign keys, and refuse a row by      *)
(* rolling the transaction back, so that what follows is on its own.       *)
(*                                                                         *)
(* Tables are sets of rows.  The tables of names (TOKENS, METHODS,         *)
(* MECHANISMS) are sets of names: a row that refers to one of them has the *)
(* name, or None where the statement found none.                           *)
(***************************************************************************)
EXTENDS Naturals, FiniteSets, FiniteSetsExt

CONSTANTS
  MaxId,         \* bound: identities inserted in a behaviour
  Method, Mechanism, Token, Realm, Ref,
  None,          \* NULL, and no such row
  MaxFault,      \* bound: a statement later than this does not fail
  Interference   \* the kinds of disorder the run allows

InterferenceKinds == {"faults", "removed", "old", "crash"}

\* What the constants are assumed to be
MetaDataAssumption ==
  /\ MaxId \in Nat \ {0} /\ MaxFault \in Nat
  /\ None \notin Method \cup Mechanism \cup Token \cup Realm \cup Ref \cup Nat
  /\ Interference \subseteq InterferenceKinds

VARIABLES
  db,        \* the file
  schema,    \* what was made of its tables, and user_version
  running,   \* the daemon has it open
  result,    \* of the last operation: what it returned and errorOccurred()
  wanted     \* history: what was last stored, as the caller was told

vars == <<db, schema, running, result, wanted>>

Id == 1 .. MaxId
SchemaVersion == 2     \* SSO_METADATADB_VERSION
OrNone(S) == S \cup {None}

\* methods: the mechanisms of each method that is listed
Info == [methods : [Method -> OrNone(SUBSET Mechanism)], acl : SUBSET Token,
         owners : SUBSET Token, realms : SUBSET Realm]

Tables ==
  [credentials : SUBSET Id, methods : SUBSET Method, mechanisms : SUBSET Mechanism,
   tokens : SUBSET Token, realms : SUBSET (Id \X Realm),
   acl : SUBSET (Id \X OrNone(Method) \X OrNone(Mechanism) \X OrNone(Token)),
   owner : SUBSET (Id \X OrNone(Token)), refs : SUBSET (Id \X OrNone(Token) \X Ref),
   last : 0 .. MaxId]

NoRows == [credentials |-> {}, methods |-> {}, mechanisms |-> {}, tokens |-> {},
          realms |-> {}, acl |-> {}, owner |-> {}, refs |-> {}, last |-> 0]

\* tables: "half" when an upgrade stopped with the table OWNER made and not filled
SchemaType == [tables : {"none", "partial", "old", "half", "full"}, version : 0 .. SchemaVersion]

ResultType == [op : {"none", "start", "update", "remove", "clear", "reference"},
               id : 0 .. MaxId, ok : BOOLEAN, error : BOOLEAN]

TypeOK ==
  /\ db \in Tables
  /\ schema \in SchemaType
  /\ running \in BOOLEAN
  /\ result \in ResultType
  /\ wanted \in [Id -> OrNone(Info)]

-----------------------------------------------------------------------------
\* Statements: a connection is its tables, the tables a rollback returns to, whether there
\* is a transaction, m_lastError, and the number of the statement that will fail.

Connection(tables, fault) ==
  [t |-> tables, saved |-> tables, begun |-> FALSE, error |-> FALSE, fault |-> fault]

Begin(w) == [w EXCEPT !.saved = w.t, !.begun = TRUE]

Rollback(w) == IF w.begun THEN [w EXCEPT !.t = w.saved, !.begun = FALSE] ELSE w

\* exec(): a statement that fails has no effect, but does not end the transaction; one that
\* succeeds clears the last error; RAISE(ROLLBACK) ends the transaction.
Exec(w, allowed, tables) ==
  LET v == [w EXCEPT !.fault = IF @ = 0 THEN 0 ELSE @ - 1]
  IN CASE w.fault = 1 -> [v EXCEPT !.error = TRUE]
       [] w.fault # 1 /\ ~allowed -> [Rollback(v) EXCEPT !.error = TRUE]
       [] OTHER -> [v EXCEPT !.t = tables, !.error = FALSE]

Each(w, S, Statement(_, _)) == FoldSet(LAMBDA x, v : Statement(v, x), w, S)

\* COMMIT may fail like any statement, but sets no error.
Committed(w) == w.begun /\ w.fault # 1

-----------------------------------------------------------------------------
\* Reading

\* identity(), and what it makes of the rows
Stored(id) ==
  [methods |-> [m \in Method |->
     IF \E r \in db.acl : r[1] = id /\ r[2] = m /\ m \in db.methods
       THEN {x \in db.mechanisms : \E r \in db.acl : r[1] = id /\ r[2] = m /\ r[3] = x}
       ELSE None],
   acl |-> {t \in db.tokens : \E r \in db.acl : r[1] = id /\ r[4] = t},
   owners |-> {t \in db.tokens : <<id, t>> \in db.owner},
   realms |-> {r \in Realm : <<id, r>> \in db.realms}]

\* ownerList() and accessControlList() do not look whether there is such an identity.
OwnerList(id) == Stored(id).owners

References(id, token) == {r \in Ref : <<id, token, r>> \in db.refs}

-----------------------------------------------------------------------------
\* Writing

Exists(w, id) == id \in w.t.credentials

InsertToken(w, t) == Exec(w, TRUE, [w.t EXCEPT !.tokens = @ \cup {t}])

\* The subquery for the row of a name
Found(S, x) == IF x \in S THEN x ELSE None

InsertRealm(w, id, r) ==
  IF w.error THEN w ELSE Exec(w, Exists(w, id), [w.t EXCEPT !.realms = @ \cup {<<id, r>>}])

\* Variant: the new list is added to the old one.
UpdateRealmsAdding(w, id, info, isNew) ==
  Each(w, info.realms, LAMBDA v, r : InsertRealm(v, id, r))

UpdateRealms(w, id, info, isNew) ==
  LET v == IF isNew THEN w
           ELSE Exec(w, TRUE, [w.t EXCEPT !.realms = {r \in @ : r[1] # id}])
  IN Each([v EXCEPT !.error = FALSE], info.realms, LAMBDA u, r : InsertRealm(u, id, r))

Listed(info) == {m \in Method : info.methods[m] # None}

InsertMethods(w, info) ==
  Each(w, Listed(info), LAMBDA v, m :
    Each(Exec(v, TRUE, [v.t EXCEPT !.methods = @ \cup {m}]), info.methods[m],
         LAMBDA u, x : Exec(u, TRUE, [u.t EXCEPT !.mechanisms = @ \cup {x}])))

InsertAcl(w, id, m, x, t) ==
  Exec(w, Exists(w, id),
       [w.t EXCEPT !.acl = @ \cup {<<id, Found(w.t.methods, m), Found(w.t.mechanisms, x),
                                     Found(w.t.tokens, t)>>}])

\* The rows: a method without mechanisms, and a list without methods or without tokens, have
\* rows that are empty there.
OrNothing(S) == IF S = {} THEN {None} ELSE S

InsertAcls(w, id, info) ==
  LET methods == IF Listed(info) = {} /\ info.acl # {} THEN {None} ELSE Listed(info)
      mechanisms(m) == IF m = None THEN {None} ELSE OrNothing(info.methods[m])
  IN Each(w, methods, LAMBDA v, m :
       Each(v, OrNothing(info.acl), LAMBDA u, t :
         Each(u, mechanisms(m), LAMBDA s, x : InsertAcl(s, id, m, x, t))))

InsertOwner(w, id, t) ==
  Exec(w, TRUE, [w.t EXCEPT !.owner = @ \cup {<<id, Found(w.t.tokens, t)>>}])

DeleteLists(w, id) ==
  LET v == Exec(w, TRUE, [w.t EXCEPT !.acl = {r \in @ : r[1] # id}])
  IN Exec(v, TRUE, [v.t EXCEPT !.owner = {r \in @ : r[1] # id}])

\* updateCredentials(): an update of an identity that is not there succeeds.
UpdateCredentials(w, id, isNew) ==
  Exec(w, TRUE, IF isNew THEN [w.t EXCEPT !.credentials = @ \cup {id}, !.last = id] ELSE w.t)

\* updateIdentity(), up to the commit
Lists(w, id, info, isNew) ==
  LET tokens == Each(w, info.acl \cup info.owners, InsertToken)
      cleared == IF isNew THEN tokens ELSE DeleteLists(tokens, id)
      acls == InsertAcls(cleared, id, info)
  IN Each(acls, info.owners, LAMBDA v, t : InsertOwner(v, id, t))

\* Variant: a failure half-way leaves what was done.
CommittedAnyway(w) ==
  [db |-> w.t, ok |-> Committed(w), error |-> w.error]

\* What is left of a connection, and whether the operation succeeded
Ended(w) ==
  [db |-> IF Committed(w) THEN w.t ELSE Rollback(w).t, ok |-> Committed(w), error |-> w.error]

Failed(w) == [db |-> Rollback(w).t, ok |-> FALSE, error |-> w.error]

UpdateIdentity(id, info, isNew, fault) ==
  LET credentials == UpdateCredentials(Begin(Connection(db, fault)), id, isNew)
      methods == InsertMethods(credentials, info)
      realms == UpdateRealms(methods, id, info, isNew)
  IN IF credentials.error THEN Failed(credentials)
     ELSE IF realms.error THEN Failed(realms)
     ELSE Ended(Lists(realms, id, info, isNew))

\* transactionalExec(): the statements until one fails
Then(w, tables) == IF w.error THEN w ELSE Exec(w, TRUE, tables)
Transacted(w) == IF w.error THEN Failed(w) ELSE Ended(w)

\* DELETE with the triggers of each table
Without(T, i, S) == {r \in T : r[i] \notin S}

DeleteCredentials(w, ids) ==
  Then(w, [w.t EXCEPT !.credentials = @ \ ids, !.realms = Without(@, 1, ids),
                      !.acl = Without(@, 1, ids), !.refs = Without(@, 1, ids)])

DeleteMethods(w) ==
  Then(w, [w.t EXCEPT !.methods = {}, !.acl = Without(@, 2, w.t.methods)])

DeleteMechanisms(w) ==
  Then(w, [w.t EXCEPT !.mechanisms = {}, !.acl = Without(@, 3, w.t.mechanisms)])

DeleteTokens(w) ==
  Then(w, [w.t EXCEPT !.tokens = {}, !.acl = Without(@, 4, w.t.tokens),
                      !.owner = Without(@, 2, w.t.tokens),
                      !.refs = Without(@, 2, w.t.tokens)])

\* removeIdentity(): the references are left to the triggers, which the owners do not have.
RemoveIdentity(id, fault) ==
  LET credentials == DeleteCredentials(Begin(Connection(db, fault)), {id} \cap db.credentials)
      acl == Then(credentials, [credentials.t EXCEPT !.acl = Without(@, 1, {id})])
      realms == Then(acl, [acl.t EXCEPT !.realms = Without(@, 1, {id})])
  IN Transacted(Then(realms, [realms.t EXCEPT !.owner = Without(@, 1, {id})]))

\* clear(): identifiers are not given again.
ClearTables(fault) ==
  LET names == DeleteMechanisms(DeleteMethods(DeleteCredentials(Begin(Connection(db, fault)),
                                                                db.credentials)))
      acl == Then(names, [names.t EXCEPT !.acl = {}])
      tokens == DeleteTokens(Then(acl, [acl.t EXCEPT !.realms = {}]))
  IN Transacted(Then(tokens, [tokens.t EXCEPT !.owner = {}]))

InsertReference(w, id, t, r) ==
  Exec(w, Exists(w, id), [w.t EXCEPT !.refs = @ \cup {<<id, Found(w.t.tokens, t), r>>}])

\* addReference(): the second statement is executed whatever became of the first.
AddRef(id, t, r, fault) ==
  LET token == InsertToken(Begin(Connection(db, fault)), t)
      reference == InsertReference(token, id, t, r)
  IN IF token.error \/ reference.error THEN Failed(reference) ELSE Ended(reference)

\* removeReference() of one reference, or of all that the token has (None)
RemoveRef(id, t, r, fault) ==
  LET w == Begin(Connection(db, fault))
      v == Exec(w, TRUE, [w.t EXCEPT !.refs = {x \in @ : ~(x[1] = id /\ x[2] = t
                                                           /\ r \in {None, x[3]})}])
  IN IF v.error THEN Failed(v) ELSE Ended(v)

-----------------------------------------------------------------------------
\* A new installation, or a database of version 1 with an identity, which has no owners
Init ==
  /\ running = FALSE
  /\ result = [op |-> "none", id |-> 0, ok |-> TRUE, error |-> FALSE]
  /\ wanted = [id \in Id |-> None]
  /\ schema \in {[tables |-> "none", version |-> 0]} \cup
       (IF "old" \in Interference
          THEN {[tables |-> "old", version |-> 1]} ELSE {})
  /\ IF schema.tables = "none" THEN db = NoRows
     ELSE \E acl \in SUBSET Token, methods \in [Method -> OrNone(SUBSET Mechanism)] :
            db = LET info == [methods |-> methods, acl |-> acl, owners |-> {}, realms |-> {}]
                     w == UpdateCredentials(Connection(NoRows, 0), 1, TRUE)
                 IN InsertAcls(Each(InsertMethods(w, info), acl, InsertToken), 1, info).t

Faults == IF "faults" \in Interference THEN 0 .. MaxFault ELSE {0}

\* The tables are made one by one, each on its own; a crash leaves some of them.
Crash(tables) ==
  /\ "crash" \in Interference
  /\ schema' = [schema EXCEPT !.tables = tables]
  /\ UNCHANGED <<running, result, wanted>>

Opened(op) ==
  /\ running' = TRUE
  /\ result' = [op |-> op, id |-> 0, ok |-> TRUE, error |-> FALSE]

\* createTables(), and user_version
CreateTables ==
  /\ ~running /\ schema.tables = "none"
  /\ UNCHANGED db
  /\ \/ /\ Opened("start")
        /\ schema' = [tables |-> "full", version |-> SchemaVersion]
        /\ UNCHANGED wanted
     \/ Crash("partial")
     \/ Crash("full")

Start ==
  /\ ~running /\ schema.tables \in {"old", "half", "partial", "full"}
  /\ schema.version = SchemaVersion
  /\ Opened("start")
  /\ UNCHANGED <<db, schema, wanted>>

\* updateDB(0): the database is cleared, and user_version stays what it is.
Clears == schema.version < 1

ClearOldDB ==
  /\ ~running /\ schema.tables # "none" /\ Clears
  /\ db' = NoRows
  /\ \/ /\ Opened("start")
        /\ schema' = [tables |-> "full", version |-> 0]
        /\ UNCHANGED wanted
     \/ \E tables \in {"none", "partial", "full"} : Crash(tables)

\* updateDB(1): the table OWNER is made and filled from ACL.
Upgraded == [db EXCEPT !.owner = @ \cup {<<r[1], r[4]>> : r \in db.acl}]

UpgradeDB ==
  /\ ~running /\ schema.version = 1 /\ ~Clears
  /\ \/ /\ schema.tables = "old"
        /\ Opened("start")
        /\ db' = Upgraded
        /\ schema' = [tables |-> "full", version |-> SchemaVersion]
        /\ UNCHANGED wanted
     \/ schema.tables = "old" /\ Crash("half") /\ UNCHANGED db
     \/ schema.tables = "old" /\ Crash("half") /\ db' = Upgraded
     \/ /\ schema.tables = "half"
        /\ Opened("start")
        /\ UNCHANGED <<db, schema, wanted>>

\* The daemon ends, in an orderly way or not: a transaction is undone.
Stop ==
  /\ running
  /\ running' = FALSE
  /\ UNCHANGED <<db, schema, result, wanted>>

-----------------------------------------------------------------------------
Perform(op, id, r) ==
  /\ db' = r.db
  /\ result' = [op |-> op, id |-> id, ok |-> r.ok, error |-> r.error]
  /\ UNCHANGED <<schema, running>>

\* What the caller believes: SignonIdentity reads errorOccurred() after a store.
Update(id, info, isNew, fault) ==
  LET r == UpdateIdentity(id, info, isNew, fault)
  IN /\ Perform("update", IF r.ok THEN id ELSE 0, r)
     /\ wanted' = IF r.ok \/ ~(r.error \/ isNew) THEN [wanted EXCEPT ![id] = info] ELSE wanted

Insert(info, fault) ==
  /\ running /\ db.last < MaxId
  /\ Update(db.last + 1, info, TRUE, fault)

UpdateOld(id, info, fault) ==
  /\ running /\ id <= db.last
  /\ id \in db.credentials \/ "removed" \in Interference
  /\ Update(id, info, FALSE, fault)

Remove(id, fault) ==
  /\ running /\ id <= db.last
  /\ LET r == RemoveIdentity(id, fault)
     IN /\ Perform("remove", id, r)
        /\ wanted' = IF r.ok THEN [wanted EXCEPT ![id] = None] ELSE wanted

Clear(fault) ==
  /\ running
  /\ LET r == ClearTables(fault)
     IN /\ Perform("clear", 0, r)
        /\ wanted' = IF r.ok THEN [id \in Id |-> None] ELSE wanted

AddReference(id, t, r, fault) ==
  /\ running /\ id <= db.last
  /\ Perform("reference", id, AddRef(id, t, r, fault))
  /\ UNCHANGED wanted

RemoveReference(id, t, r, fault) ==
  /\ running
  /\ References(id, t) # {} /\ r \in References(id, t) \cup {None}
  /\ Perform("reference", id, RemoveRef(id, t, r, fault))
  /\ UNCHANGED wanted

Next ==
  \/ CreateTables \/ Start \/ ClearOldDB \/ UpgradeDB \/ Stop
  \/ \E fault \in Faults :
       \/ \E info \in Info :
            Insert(info, fault) \/ \E id \in Id : UpdateOld(id, info, fault)
       \/ \E id \in Id : Remove(id, fault)
       \/ Clear(fault)
       \/ \E id \in Id, t \in Token, r \in Ref :
            AddReference(id, t, r, fault) \/ RemoveReference(id, t, r, fault)
       \/ \E id \in Id, t \in Token : RemoveReference(id, t, None, fault)

Spec == Init /\ [][Next]_vars

-----------------------------------------------------------------------------
\* Properties

\* What was stored is read back, whatever the identity was before and whatever is done to
\* others: the rows of five tables and the joins over them lose and mix nothing.
RoundTrip ==
  \A id \in Id : wanted[id] # None =>
    id \in db.credentials /\ Stored(id) = wanted[id]

\* An identity that is not there has no rows in any table: its owners and access control
\* list are empty, and its references are gone.
NoOrphans ==
  \A id \in Id \ db.credentials :
    /\ \A r \in db.acl \cup db.owner \cup db.realms \cup db.refs : r[1] # id
    /\ OwnerList(id) = {}

\* A name that rows refer to is not removed without them.
NamesKept ==
  /\ \A r \in db.acl : r[2] \in OrNone(db.methods) /\ r[3] \in OrNone(db.mechanisms)
                         /\ r[4] \in OrNone(db.tokens)
  /\ \A r \in db.owner \cup db.refs : r[2] \in OrNone(db.tokens)

\* An operation that answers that it failed has changed nothing.
SameIfFailed == ~result'.ok => db' = db
FailureChangesNothing == [][SameIfFailed]_vars

\* Opening the database keeps what this version has stored in it.
KeptAtStart ==
  result'.op = "start" /\ running' /\ ~running => \A id \in Id :
    wanted[id] # None => id \in db'.credentials
DataSurvives == [][KeptAtStart]_vars

\* However often the upgrade of a database of version 1 is interrupted and tried again, its
\* identities and their access control lists stay.
KeptByUpgrade ==
  ~running /\ schema.version = 1 =>
    db'.credentials = db.credentials /\ db'.acl = db.acl
UpgradeKeepsOld == [][KeptByUpgrade]_vars

\* The applications in the access control list of an identity that was stored by version 1
\* own it once this version has opened the database.
OwnersMigrated ==
  running => \A r \in db.acl :
    wanted[r[1]] = None /\ r[4] # None => r[4] \in OwnerList(r[1])
=============================================================================
