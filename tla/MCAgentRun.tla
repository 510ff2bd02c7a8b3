----------------------------- MODULE MCAgentRun -----------------------------
(***************************************************************************)
(* Small instances of AgentRun.  Every registered graph reads evidence,    *)
(* possibly in parallel and with a retry, asks one person, and may then    *)
(* dispatch actions.  The line is the shortest such graph.  The fork joins *)
(* the gate with a second branch, so that the action becomes ready even    *)
(* when the gate was skipped for want of evidence.                         *)
(***************************************************************************)
EXTENDS AgentRun, TLC

CONSTANTS read, check, ask, act, r1, r2

LineNodes == {read, ask, act}
LineDeps == read :> {} @@ ask :> {read} @@ act :> {ask}
LineKind == read :> "read" @@ ask :> "approval" @@ act :> "action"
LineAttempts == read :> 2 @@ ask :> 1 @@ act :> 1
LineOnce == [n \in LineNodes |-> 1]
LineCondition == read :> NoNode @@ ask :> NoNode @@ act :> ask
LineMeets == [n \in LineNodes |-> {"succeeded"}]

ForkNodes == {read, check, ask, act}
ForkDeps == read :> {} @@ check :> {} @@ ask :> {read} @@ act :> {ask, check}
ForkKind == check :> "compute" @@ LineKind
ForkAttempts == check :> 1 @@ LineAttempts
ForkCondition == act :> check @@ [n \in ForkNodes |-> NoNode]
ForkMeets == [n \in ForkNodes |-> {"succeeded"}]

OneReplica == {r1}
TwoReplicas == {r1, r2}
Replicas == Permutations(TwoReplicas)

\* Bound: the mode changes or the switch is engaged, not both.
OneIntervention == spent.kill + spent.mode <= 1
=============================================================================
