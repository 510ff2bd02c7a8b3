SPECIFICATION Spec
CONSTANTS
  read = read
  check = check
  ask = ask
  act = act
  r1 = r1
  r2 = r2
  NoNode = NoNode
  Nodes <- ForkNodes
  Deps <- ForkDeps
  Kind <- ForkKind
  MaxAttempts <- ForkAttempts
  MaxSteps = 5
  Condition <- ForkCondition
  Meets <- ForkMeets
  Executors <- TwoReplicas
  MaxCrashes = 1
  MaxKills = 0
  StartMode = "autonomous_guarded"
  MaxModeChanges = 0
  MaxElapsed = 0
  MayRefuse = FALSE
SYMMETRY Replicas
INVARIANTS StepBudget DependencyOrder OneOwner ActionsFollowApproval CompletedIsTruthful
PROPERTY ResultsFinal
