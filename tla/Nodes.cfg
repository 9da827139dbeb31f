\* One part at a time: three requests at two nodes, an asset on each road, two contracts, two nodes that come up, a card and what is decided by it, two callers at the doors of a node.
SPECIFICATION Spec
CONSTANTS
  Node = {"A", "B"}
  Request = {1, 2, 3}
  Holds <- HoldsOwn
  Bound = {"A", "B"}
  Owner0 <- Owners
  MaxMoves = 1
  Entry <- EntryOf
  Cards <- CardsOfRequest
  Source <- SourceOf
  Pushdown <- PushdownOf
  Defaults <- NodeDefaults
  Binding <- BindsContract
  Gate <- KnowsContract
  Fits <- AllFit
  Offers = {"ogc"}
  Profiles = {"open", "keyed", "public"}
  Keys = {{}, {"submit"}, {"submit", "write"}}
  MaxPosts = 3
  Program = {"p1", "p2"}
  Contract = {"ca", "cb"}
  AssetType = {"text", "report"}
  Similar <- EquallyClose
  Intent = {"q1", "q2"}
  Agrees <- OneAgrees
  Threshold = 2
  Candidates = 1
  MaxCalls = 3
  Site = {"n1", "n2"}
  Good = {"card", "skill"}
  Skills = {"skill"}
  Package = {"own", "plugin", "process"}
  Vital = {"own"}
  Brings <- BroughtBy
  Loads <- LoadedBy
  Directory <- TwoRegistries
  Advertises <- OneEach
  MaxStarts = 2
  MaxMishaps = 1
  Places <- CardPlaces
  Times <- CardTimes
  Bands <- CardBands
  Fold <- SmallLetters
  Equivalent <- SameCrs
  Policies <- CardPolicies
  Requests <- FourRequests
  Runtimes <- ModelRuntimes
  Fleet <- ThreeNodes
  Alike <- SameFamily
  Part = {"pa", "pb"}
  MaxParts = 2
  MaxShifts = 1
  Caller = {"owner", "guest"}
  HasKey <- WithKey
  Sends <- LettersOf
  Setup <- TwoSetups
  Asset = {"s", "m", "r"}
  AssetKind <- SortOfAsset
  Shared = {}
  BigLetters <- HugeOnes
  Tool = {"t1", "t2"}
  Native = {"t2"}
  Cursor = {"k1", "k2"}
  MaxCursors = 2
  MaxAssets = 1
  MaxTools = 2
CHECK_DEADLOCK FALSE
INVARIANTS
  TypeOK
  AnswerIsTrue
  NodeLifeIsSound
PROPERTIES
  OnboardingIsSound
  ContractsAreKept
  CardsAreRead
  DoorsAreSound
  EverythingEnds
