\* One part at a time: two writers of a recipe, documents of three steps, a plan of three steps, a call of each kind.
SPECIFICATION Spec
CONSTANTS
  Process = {"p", "q"}
  Writer = {"p", "q"}
  Central = "p"
  Address = {"recipe", "fork"}
  Slug <- OwnSlug
  Rank <- OnlyVersion
  ForkOf <- Forked
  MaxChanges = 2
  Step = {1, 2, 3}
  DependsOn <- Named
  Uses <- Used
  MaxReflections = 3
  MaxRuns = 2
  Call = {"inference", "batch", "oge", "ogc", "mcp"}
  Kind <- Same
  MaxAttempts = 2
  MaxFlips = 2
  Steps = 3
  Document <- Documents
  Given = {"absent", "null", "below", "in", "above", "nan", "text", "unknown"}
  Extra = 1
  Host = {"h1", "h2"}
  Asset = {"s1", "s2", "c1", "c2"}
  FirstHost <- OneEachAsset
  Goals <- SomeGoals
  Able = {"s1", "s2"}
  Matching = {"c1", "c2"}
  MaxRequests = 2
  MaxEvents = 2
  MaxRetries = 2
  Defect = {"import", "other"}
  Entity = {"e1", "e2"}
  Contracts <- ListedContracts
  Requires <- FirstNeedsSecond
  MaxCalls = 5
  Client = {"c1"}
  Key = {"author", "judge", "keeper"}
  Scopes <- KeyScopes
  Modes = {TRUE, FALSE}
  Gn = {"n"}
  CacheTtl = 1
  MaxClock = 2
CHECK_DEADLOCK FALSE
INVARIANTS
  TypeOK
  PlannedWereApproved
  GraphIsKept
  OutcomeIsBacked
  RecipesRunSoundly
  PlanningIsSound
  RegistryAnswers
PROPERTIES
  PlanIsSound
  EverythingEnds
