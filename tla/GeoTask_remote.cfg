\* A diamond of four tasks on one core, remote backend that may raise; "c" never fits, "d" has no handler.
SPECIFICATION Spec
CONSTANTS
  NoTask = NoTask
  Task <- DiamondTasks
  Deps <- DiamondDeps
  MaxAttempts <- Attempts
  BacksOff = {"a"}
  Unhandled = {"d"}
  Fits <- FitsOneCore
  Flaky = TRUE
INVARIANTS
  CascadeIsRight
PROPERTIES
  KeepsContract
