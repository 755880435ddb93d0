SPECIFICATION ClientSpec
CONSTANTS
  \* Consumer
  FrameChCap = 1
  MaxEvents = {0, 3}
  LineCounts = {2}
  MaxFrames = 2
  Kinds = {"event", "dropped", "subscribe_error", "bye"}
  \* Credentials
  Procs = {p1, p2}
  p1 = p1
  p2 = p2
  RolesOf <- MCRolesOf
  NoProc = NoProc
  Users = {u1}
  NoUser = NoUser
  MaxTokens = 2
  \* FileCache
  CacheUsers = {p1, p2}
  Nobody = Nobody
  MaxInodes = 2
  MaxWrites = 2
  \* KeyStore
  Clients = {p1, p2}
  NoClient = NoClient
  Accounts = {u1, u2}
  NoAccount = NoAccount
  MaxKeys = 2
  \* Logging
  Loggers = {p1, p2}
  NoLogger = NoLogger
  LogLimit = 1
  LogQueueCap = 1
  RetainDays = 1
  LastDay = 2
  MaxLines = 2
  \* Updates
  Updaters = {p1, p2}
  NoUpdater = NoUpdater
  MaxVersion = 3
  \* Commands
  Requests <- MCRequests
  NoRequest = NoRequest
  Hurried = {"crash"}
  MaxAttempts = 3
  MaxDelay = 8
  MaxLate = 1
  CommandKinds = {"single", "share-set", "list", "get", "transient", "upload"}
  ShareOps <- MCShareOps
  Pages <- MCPages
INVARIANTS
  ClientTypeOK
  OutputIsAPrefix
  ExitSaysWhy
  AsksOnlyIfStale
  EntriesReadable
  LogKeepsLines
  LogFilesBounded
  SkillIntact
  RestCallsHonest
  AlgorithmsAgree
PROPERTIES
  ConsumerStops
  BusNoticesLogout
  CacheIsARegister
\* A consumer, a command and an update end.
CHECK_DEADLOCK FALSE
