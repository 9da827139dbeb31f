\* One part at a time: two clients of one task id, two callers and two workers, two readers, two registries, two nodes.
SPECIFICATION Spec
CONSTANTS
  Id = {t1}
  MaxSubmits = 2
  PoolSize = 2
  Caller = {"c1", "c2"}
  Worker = {"w1", "w2"}
  Pushdown = {"k"}
  TaskOf <- OneTask
  Kind <- Skills
  Remote = {"w1", "w2"}
  Fits <- AnyNode
  Near <- DataAtSecond
  Home <- RegionOfFirst
  Starters <- BothNodes
  Reader = {r1, r2}
  QueueSize = 1
  MaxEvents = 2
  MaxClears = 1
  Reg = {"ra", "rb"}
  Card = {"card"}
  Skill = {"skill"}
  Plugin = {"plugin"}
  Endpoint = {"n1"}
  Peers <- EachOther
  Guarded = {"ra"}
  Blocking = {"ra", "rb"}
  UpdateExisting = TRUE
  MaxReviews = 1
  MaxSyncs = 1
  Asked = {"x", "y"}
  Node = {"n1", "n2"}
  Probes = TRUE
  SkipUnhealthy = TRUE
  MaxMoves = 1
  Server = {"hs", "both", "rs", "verifier"}
  Jwt <- Backends
  HasModel = {"hs"}
  Ttl = 1
  Task = {"k1"}
  Host = {"h1", "h2"}
  KeyOf <- Keys
  Default = "none"
  FirstKeyed = "h1"
  MaxTime = 1
  MaxLogins = 1
CHECK_DEADLOCK FALSE
INVARIANTS
  TypeOK
  ReaderMissesNothing
  EachCardOnce
  OnlyVouchedSpreads
PROPERTIES
  SubmissionsAreSound
  WebAnswersAreSound
  DispatchIsSound
  EverythingEnds
