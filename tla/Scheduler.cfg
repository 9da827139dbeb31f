\* Two owners, two priorities, two cores, at most two tasks at a time.
SPECIFICATION Spec
CONSTANTS
  Task <- MixedTasks
  Position <- MixedPosition
  Deps <- MixedDeps
  Priority <- MixedPriority
  Owner <- MixedOwner
  Need <- MixedNeed
  Capacity = 2
  Limit = 2
  Retries <- MixedRetries
  BacksOff = {"v"}
INVARIANTS
  SchedulerTypeOK
PROPERTIES
  AdmissionIsRight
  EveryoneIsServed
