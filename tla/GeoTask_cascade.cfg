\* Local threads, two cores: CancelCascades is what the documents say.
SPECIFICATION Spec
CONSTANTS
  NoTask = NoTask
  Task <- ForkTasks
  Deps <- ForkDeps
  MaxAttempts <- Attempts
  BacksOff = {"a"}
  Unhandled = {}
  Fits <- FitsTwoCores
  Flaky = FALSE
INVARIANTS
  CancelCascades
