SPECIFICATION Spec
CONSTANTS
  read = read
  check = check
  ask = ask
  act = act
  r1 = r1
  r2 = r2
  NoNode = NoNode
  Nodes <- LineNodes
  Deps <- LineDeps
  Kind <- LineKind
  MaxAttempts <- LineOnce
  MaxSteps = 3
  Condition <- LineCondition
  Meets <- LineMeets
  Executors <- TwoReplicas
  MaxCrashes = 0
  MaxKills = 1
  StartMode = "step_by_step"
  MaxModeChanges = 1
  MaxElapsed = 0
  MayRefuse = TRUE
CONSTRAINT OneIntervention
SYMMETRY Replicas
INVARIANTS Justified RejectedNeverActs NothingStartsUnasked CancelledIsQuiet
PROPERTIES TerminalRunFinal DecisionsFinal KeepsPromise
