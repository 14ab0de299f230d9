SPECIFICATION DaemonSpec
CONSTANTS
  client1 = client1
  client2 = client2
  Everyone = Everyone
  method1 = method1
  method2 = method2
  word1 = word1
  Client = {client1, client2}
  Keychain = client1
  Method = {method1, method2}
  Plugin = {method1}
  Word = {word1, word2}
  Session = {session1, session2}
  Core = {core1, core2}
  Ids = {1, 2}
  MaxQueue = 2
  Infos <- ListsOfIdentities
  Null = Null
  Interferences = {{}, {"waiting", "closed", "late"}}
  method = method
  mechanism = mechanism
  token1 = token1
  token2 = token2
  realm = realm
  ref = ref
  wallet = wallet
  DB = DB
  Secrets = {wallet}
  Version = {v1, v2}
  Empty = Empty
  Setups <- SetupsOfBackups
  Missing = Missing
  Fresh = Fresh
  user = user
  pass = pass
  data = data
  row1 = row1
  Absent = Absent
  NoRow = NoRow
  Blank = Blank
SYMMETRY Symmetric
CONSTRAINT Bound
\* The bounds of some parts end them.
CHECK_DEADLOCK FALSE
INVARIANTS
  SessionsInv
  TablesInv
  FilesInv
  RemovedIsGone
PROPERTIES
  StartedAsPermitted
  StorageIsKept
