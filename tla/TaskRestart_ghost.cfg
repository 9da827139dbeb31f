\* NoGhosts is what the documents say.
SPECIFICATION FileSpec
CONSTANTS
  NoTask = NoTask
  Task <- ChainTasks
  Deps <- ChainDeps
  MaxAttempts <- TwoForA
  BacksOff = {"a"}
  Unhandled = {}
  Fits <- FitsAlways
  Flaky = TRUE
  MaxCrashes = 2
  Thread = {"h1", "h2"}
  Operator = "operator"
  Crews <- TwoAtATime
  Retention = 2
  MaxEvents = 7
  MaxCalls = 2
  MaxDeaths = 1
INVARIANTS
  NoGhosts
