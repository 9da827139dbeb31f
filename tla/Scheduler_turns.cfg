\* Two owners of equal tasks, one at a time: OwnersTakeTurns is what _fair_order promises.
SPECIFICATION Spec
CONSTANTS
  Task <- TurnsTasks
  Position <- TurnsPosition
  Deps <- NoDeps
  Priority <- OneLevel
  Owner <- TurnsOwner
  Need <- OneCore
  Capacity = 1
  Limit = 1
  Retries <- NoRetries
  BacksOff = {}
PROPERTIES
  OwnersTakeTurns
