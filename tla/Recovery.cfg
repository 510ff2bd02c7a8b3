SPECIFICATION FairSpec
CONSTANTS
  read = read
  check = check
  ask = ask
  act = act
  r1 = r1
  r2 = r2
  NoNode = NoNode
  Nodes <- LineNodes
  Deps <- LineDeps
  Kind <- LineKind
  MaxAttempts <- LineAttempts
  MaxSteps = 4
  Condition <- LineCondition
  Meets <- LineMeets
  Executors <- OneReplica
  MaxCrashes = 1
  MaxKills = 1
  StartMode = "autonomous_guarded"
  MaxModeChanges = 0
  MaxElapsed = 2
  MayRefuse = TRUE
INVARIANT TypeOK
PROPERTY NeverStuckRunning
