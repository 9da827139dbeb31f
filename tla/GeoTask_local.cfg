\* Three tasks contending for two cores, local threads.
SPECIFICATION FairSpec
CONSTANTS
  NoTask = NoTask
  Task <- ForkTasks
  Deps <- ForkDeps
  MaxAttempts <- Attempts
  BacksOff = {"a"}
  Unhandled = {}
  Fits <- FitsTwoCores
  Flaky = FALSE
INVARIANTS
  TypeOK
  DependenciesFirst
  LedgerIsRight
  NeverRaises
  OneExecutionAtATime
  RunIsComplete
PROPERTIES
  RunEnds
