--------------------------- MODULE AgentRunProofs ---------------------------
(***************************************************************************)
(* What is proved of AgentRun, for every graph that satisfies              *)
(* GraphAssumption, every finite set of replicas and all bounds.  Types:   *)
(* one lemma per group of actions of Next, one step per action.  Safety:   *)
(* four lemmas say how a step may change the node rows (NodeStep), the     *)
(* attempts a replica holds (WorkStep), its view (ViewStep) and the        *)
(* approvals (GateStep); the conjuncts of the invariant Justified are then *)
(* kept one by one against these few cases instead of the forty actions.   *)
(* Control: what a person who cancels a mission, approves its steps or     *)
(* reads that it completed may rely on, and the refinement of MissionGate, *)
(* which shows of the rows only whether the run is terminal, the state of  *)
(* each approval, and the set of dispatched actions.                       *)
(***************************************************************************)
EXTENDS AgentRun, FiniteSetTheorems, TLAPS

USE DEF runVars, nodeVars, gateVars, controlVars, execVars

(***************************************************************************)
(* Type correctness.                                                       *)
(***************************************************************************)
\* Approval and action nodes are nodes, and NoNode is none of them (the
\* assumptions validateAgentGraph justifies).
LEMMA NodeFacts ==
    /\ ApprovalNodes \subseteq Nodes /\ ActionNodes \subseteq Nodes
    /\ NoNode \notin Nodes
  BY GraphAssumption DEF GraphAssumption, ApprovalNodes, ActionNodes

\* An idle replica's view and an empty attempt are well typed.
LEMMA EmptyTypes ==
    /\ NoView \in Views
    /\ NoItem \in Items
    /\ [n \in Nodes |-> NoItem] \in [Nodes -> Items]
<1>1. NoItem \in Items
  BY DEF NoItem, Items, Phases, NoToken
<1>2. NoView \in Views
  BY DEF NoView, Views, NodeStatuses
<1> QED
  BY <1>1, <1>2

\* A run as repository.create inserts it is well typed.
LEMMA InitType == Init => TypeOK
<1> SUFFICES ASSUME Init PROVE TypeOK
  OBVIOUS
<1>1. mode \in Modes
  BY BoundsAssumption DEF Init, BoundsAssumption
<1>2. lease \in [Nodes -> Int] /\ token \in [Nodes -> Nat]
  BY DEF Init, NoToken, NoLease
<1>3. work \in [Executors -> [Nodes -> Items]]
  BY EmptyTypes DEF Init
<1>4. /\ runStatus \in RunStatuses
      /\ status \in [Nodes -> NodeStatuses]
      /\ pc \in [Executors -> Labels]
      /\ view \in [Executors -> Views]
  BY EmptyTypes DEF Init, RunStatuses, NodeStatuses, Labels
<1>5. /\ approval \in [ApprovalNodes ->
          [state : {"none", "pending", "approved", "rejected", "cancelled"},
           late : BOOLEAN]]
      /\ gate \in [SUBSET Nodes -> {"none", "pending", "approved", "inactive"}]
  BY DEF Init
<1>6. dispatched \subseteq ActionNodes /\ elapsed \in 0..(deadline + 1)
  BY DEF Init
<1>7. killed \in BOOLEAN /\ halting \in BOOLEAN /\ resumeOwed \in BOOLEAN
  BY DEF Init
<1>8. spent \in [crash : Nat, kill : Nat, mode : Nat]
  BY DEF Init
<1>9. consumedSteps \in Nat /\ deadline \in Nat /\ attempt \in [Nodes -> Nat]
  BY DEF Init
<1> QED
  BY <1>1, <1>2, <1>3, <1>4, <1>5, <1>6, <1>7, <1>8, <1>9 DEF TypeOK

\* Entering execute() (sweep, resume, an owed resume) keeps the types.
LEMMA CallType == ASSUME TypeOK, NEW e \in Executors, Call(e) PROVE TypeOK'
  BY DEF TypeOK, Call, Sweep, Resume, ResumeOwed, Goto, Labels

\* Every step of the execute() loop keeps the types.
LEMMA LoopType == ASSUME TypeOK, NEW e \in Executors, Loop(e) PROVE TypeOK'
<1>1. CASE Enter(e) \/ EnterNodes(e) \/ RestoreGate(e) \/ Govern(e)
  BY <1>1 DEF TypeOK, Enter, EnterNodes, RestoreGate, Govern, Goto, Labels
<1>2. CASE RestoreApprovalWait(e)
  BY <1>2 DEF TypeOK, RestoreApprovalWait, MoveRun, SetRun, RunStatuses, Goto, Labels
<1>3. CASE MarkRunRunning(e)
  BY <1>3 DEF TypeOK, MarkRunRunning, MoveRun, SetRun, RunStatuses, Goto, Labels
<1>4. CASE FailRun(e)
  BY <1>4 DEF TypeOK, FailRun, MoveRun, SetRun, RunStatuses, Goto, Labels
<1>5. CASE CompleteRun(e)
  BY <1>5 DEF TypeOK, CompleteRun, MoveRun, SetRun, RunStatuses, Goto, Labels
<1>6. CASE RecoverInterruptedNodes(e)
  BY <1>6 DEF TypeOK, RecoverInterruptedNodes, SettleNodes, NodeStatuses, NoToken, NoLease, Goto, Labels
<1>7. CASE ReadRun(e)
  <2>1. view' \in [Executors -> Views]
    <3>1. view[e] \in Views
      BY DEF TypeOK
    <3>2. [view[e] EXCEPT !.deadline = deadline] \in Views
      BY <3>1 DEF TypeOK, Views
    <3>3. view' = view \/ view' = [view EXCEPT ![e] = [view[e] EXCEPT !.deadline = deadline]]
      BY <1>7 DEF ReadRun
    <3> QED
      BY <3>2, <3>3 DEF TypeOK
  <2> QED
    BY <1>7, <2>1 DEF TypeOK, ReadRun, Goto, Labels
<1>8. CASE ReadNodes(e)
  <2>1. view' \in [Executors -> Views]
    BY <1>8 DEF TypeOK, Views, ReadNodes
  <2> QED
    BY <1>8, <2>1 DEF TypeOK, ReadNodes, Goto, Labels
<1>9. CASE Decide(e)
  <2>1. Decision(view[e]) \in Labels
    BY DEF Decision, Labels
  <2> QED
    BY <1>9, <2>1, EmptyTypes DEF TypeOK, Decide, Goto
<1>10. CASE HaltRun(e)
  BY <1>10 DEF TypeOK, HaltRun, HaltTx, SetRun, RunStatuses, SettleNodes, NodeStatuses, NoToken, NoLease, Goto, Labels
<1>11. ASSUME StartWave(e)
      PROVE /\ pc' \in [Executors -> Labels]
            /\ view' \in [Executors -> Views]
            /\ work' \in [Executors -> [Nodes -> Items]]
  <2>1. ASSUME NEW n \in Nodes PROVE Item(n, view[e]) \in Items
    <3>1. view[e].deadline \in Nat
      BY DEF TypeOK, Views
    <3>2. ASSUME ApprovedAncestors(n, view[e].status) # {}
          PROVE (CHOOSE a \in ApprovedAncestors(n, view[e].status) : TRUE) \in ApprovalNodes
      BY <3>2 DEF ApprovedAncestors, Ancestors, ApprovalNodes
    <3> QED
      BY <3>1, <3>2 DEF Item, Items, Phases, NoToken
  <2> QED
    BY <1>11, <2>1, EmptyTypes DEF TypeOK, StartWave, Goto, Labels
<1>12. CASE AllowWave(e)
  BY <1>11, <1>12 DEF AllowWave, TypeOK, Goto, Labels
<1>13. CASE RequestStepGate(e)
  <2>1. Ready(view[e].status) \in SUBSET Nodes
    BY DEF Ready
  <2> DEFINE w == Ready(view[e].status)
  <2>2. w \in SUBSET Nodes
    BY <2>1
  <2>3. /\ pc' \in [Executors -> Labels]
        /\ view' \in [Executors -> Views]
        /\ work' \in [Executors -> [Nodes -> Items]]
    <3>1. StartWave(e) \/ (/\ Goto(e, "idle") /\ UNCHANGED work
                           /\ view' = [view EXCEPT ![e] = NoView])
      BY <1>13 DEF RequestStepGate
    <3>2. ASSUME Goto(e, "idle") PROVE pc' \in [Executors -> Labels]
      BY <3>2 DEF TypeOK, Goto, Labels
    <3>3. [view EXCEPT ![e] = NoView] \in [Executors -> Views]
      BY EmptyTypes DEF TypeOK
    <3>4. work \in [Executors -> [Nodes -> Items]]
      BY DEF TypeOK
    <3> QED
      BY <1>11, <3>1, <3>2, <3>3, <3>4
  <2>4. gate' \in [SUBSET Nodes -> {"none", "pending", "approved", "inactive"}]
    <3> HIDE DEF w
    <3> QED
    BY <1>13, <2>2 DEF RequestStepGate, TypeOK, w
  <2>5. runStatus' \in RunStatuses /\ UNCHANGED <<consumedSteps, deadline>>
    BY <1>13 DEF RequestStepGate, TypeOK, SetRun, RunStatuses
  <2> QED
    BY <1>13, <2>3, <2>4, <2>5 DEF RequestStepGate, TypeOK
<1>14. CASE WaveDone(e)
  BY <1>14 DEF TypeOK, WaveDone, Goto, Labels
<1> QED
  BY <1>1, <1>2, <1>3, <1>4, <1>5, <1>6, <1>7, <1>8, <1>9, <1>10, <1>12, <1>13, <1>14 DEF Loop

\* Settling any set of node rows in any status keeps the types of the rows.
LEMMA SettleType ==
    ASSUME TypeOK, NEW ns \in SUBSET Nodes, NEW new \in NodeStatuses,
           SettleNodes(ns, new)
    PROVE  /\ status' \in [Nodes -> NodeStatuses] /\ attempt' \in [Nodes -> Nat]
           /\ token' \in [Nodes -> Nat] /\ lease' \in [Nodes -> Int]
  BY DEF TypeOK, SettleNodes, NoToken, NoLease

\* Every step of a node's attempt (executeNode) keeps the types.
LEMMA AttemptType ==
    ASSUME TypeOK, NEW e \in Executors, NEW n \in Nodes, Attempt(e, n)
    PROVE  TypeOK'
<1>1. ASSUME NEW x \in Items
      PROVE  [work EXCEPT ![e] = [work[e] EXCEPT ![n] = x]] \in [Executors -> [Nodes -> Items]]
  BY DEF TypeOK
<1>2. ASSUME Finish(e, n) PROVE work' \in [Executors -> [Nodes -> Items]]
  BY <1>1, <1>2, EmptyTypes DEF Finish
<1>3. ASSUME NEW s \in NodeStatuses, SettleNodes({n}, s) \/ UNCHANGED nodeVars
      PROVE /\ status' \in [Nodes -> NodeStatuses] /\ attempt' \in [Nodes -> Nat]
            /\ token' \in [Nodes -> Nat] /\ lease' \in [Nodes -> Int]
  BY <1>3, SettleType DEF TypeOK
<1>4. /\ "succeeded" \in NodeStatuses /\ "skipped" \in NodeStatuses /\ "failed" \in NodeStatuses
      /\ "pending" \in NodeStatuses /\ "waiting_approval" \in NodeStatuses /\ "running" \in NodeStatuses
  BY DEF NodeStatuses
<1>5. work[e][n] \in Items
  BY DEF TypeOK
<1>6. ASSUME NEW p \in Phases PROVE [work[e][n] EXCEPT !.phase = p] \in Items
  BY <1>5 DEF Items
<1>7. CASE SkipNode(e, n)
  BY <1>7, <1>2, <1>3, <1>4 DEF SkipNode, TypeOK
<1>8. CASE ExhaustPendingNode(e, n)
  BY <1>8, <1>2, <1>3, <1>4 DEF ExhaustPendingNode, TypeOK
<1>9. CASE SucceedNode(e, n)
  BY <1>9, <1>2, <1>3, <1>4 DEF SucceedNode, SettleOwned, TypeOK
<1>10. CASE SkipDeniedRead(e, n)
  BY <1>10, <1>2, <1>3, <1>4 DEF SkipDeniedRead, SettleOwned, TypeOK
<1>11. CASE AttemptFails(e, n)
  BY <1>11, <1>2, <1>3, <1>4 DEF AttemptFails, SettleOwned, TypeOK
<1>12. CASE WaitForApproval(e, n)
  <2>1. approval' \in [ApprovalNodes ->
          [state : {"none", "pending", "approved", "rejected", "cancelled"},
           late : BOOLEAN]]
    <3>1. (deadline < elapsed) \in BOOLEAN
      OBVIOUS
    <3>2. [state |-> "pending", late |-> deadline < elapsed] \in
              [state : {"none", "pending", "approved", "rejected", "cancelled"},
               late : BOOLEAN]
      BY <3>1
    <3> QED
      BY <1>12, <3>2 DEF WaitForApproval, TypeOK
  <2> QED
    BY <1>12, <1>2, <1>3, <1>4, <2>1 DEF WaitForApproval, SetRun, RunStatuses, TypeOK
<1>13. CASE Dispatch(e, n)
  <2>1. work' = [work EXCEPT ![e] = [work[e] EXCEPT ![n] = [work[e][n] EXCEPT !.phase = "dispatched"]]]
    BY <1>13 DEF Dispatch
  <2>2. work' \in [Executors -> [Nodes -> Items]]
    BY <2>1, <1>1, <1>6 DEF Phases
  <2> QED
    BY <1>13, <2>2 DEF Dispatch, TypeOK, ActionNodes
<1>14. CASE StartNode(e, n)
  <2>1. CASE Claim(e, n)
    <3>1. work' = [work EXCEPT ![e] = [work[e] EXCEPT ![n] =
                      [work[e][n] EXCEPT !.phase = "busy", !.token = consumedSteps + 1]]]
      BY <2>1 DEF Claim
    <3>2. [work[e][n] EXCEPT !.phase = "busy", !.token = consumedSteps + 1] \in Items
      <4>1. consumedSteps + 1 \in Nat /\ "busy" \in Phases
        BY DEF TypeOK, Phases
      <4> QED
        BY <1>5, <4>1 DEF Items
    <3>3. work' \in [Executors -> [Nodes -> Items]]
      BY <3>1, <3>2, <1>1
    <3>4. work[e][n].deadline \in Int
      BY <1>5 DEF Items
    <3>5. /\ consumedSteps' \in Nat /\ status' \in [Nodes -> NodeStatuses]
          /\ attempt' \in [Nodes -> Nat] /\ token' \in [Nodes -> Nat]
          /\ lease' \in [Nodes -> Int]
      BY <2>1, <3>4, <1>4 DEF Claim, TypeOK
    <3> QED
      BY <1>14, <2>1, <3>3, <3>5 DEF StartNode, Claim, TypeOK
  <2>2. CASE Finish(e, n) /\ UNCHANGED <<runVars, nodeVars>> /\ (UNCHANGED pc \/ Goto(e, "idle"))
    BY <1>14, <2>2, <1>2 DEF StartNode, TypeOK, Goto, Labels
  <2>3. CASE work' = [work EXCEPT ![e][n].phase = "exhaust"] /\ UNCHANGED <<runVars, nodeVars, pc>>
    <3>1. work' = [work EXCEPT ![e] = [work[e] EXCEPT ![n] = [work[e][n] EXCEPT !.phase = "exhaust"]]]
      BY <2>3
    <3>2. work' \in [Executors -> [Nodes -> Items]]
      BY <3>1, <1>1, <1>6 DEF Phases
    <3> QED
      BY <1>14, <2>3, <3>2 DEF StartNode, TypeOK
  <2> QED
    BY <1>14, <2>1, <2>2, <2>3 DEF StartNode
<1> QED
  BY <1>7, <1>8, <1>9, <1>10, <1>11, <1>12, <1>13, <1>14 DEF Attempt

\* Renewing a lease keeps the types.
LEMMA HeartbeatType ==
    ASSUME TypeOK, NEW e \in Executors, NEW n \in Nodes, HeartbeatNode(e, n)
    PROVE  TypeOK'
<1>1. work[e][n].deadline \in Int
  BY DEF TypeOK, Items
<1> QED
  BY <1>1 DEF TypeOK, HeartbeatNode

\* Every decision, cancellation and control of an operator keeps the types.
LEMMA PeopleType == ASSUME TypeOK, People PROVE TypeOK'
<1>1. /\ "succeeded" \in NodeStatuses /\ "cancelled" \in NodeStatuses /\ "pending" \in NodeStatuses
      /\ "cancelled" \in RunStatuses /\ "pending" \in RunStatuses /\ "halted" \in RunStatuses
  BY DEF NodeStatuses, RunStatuses
<1>2. ASSUME NEW a \in ApprovalNodes, NEW x \in {"approved", "rejected"}
      PROVE [approval EXCEPT ![a].state = x] \in [ApprovalNodes ->
          [state : {"none", "pending", "approved", "rejected", "cancelled"},
           late : BOOLEAN]]
  BY DEF TypeOK
<1>3. ASSUME NEW a \in ApprovalNodes, Approve(a) PROVE TypeOK'
  <2>1. a \in Nodes
    BY DEF ApprovalNodes
  <2>2. deadline' \in Nat /\ elapsed' \in 0..(deadline' + 1)
    BY <1>3 DEF Approve, TypeOK
  <2> QED
    BY <1>1, <1>2, <1>3, <2>1, <2>2, SettleType DEF Approve, TypeOK
<1>4. ASSUME NEW a \in ApprovalNodes, Reject(a) PROVE TypeOK'
  <2>1. a \in Nodes
    BY DEF ApprovalNodes
  <2> QED
    BY <1>1, <1>2, <1>4, <2>1, SettleType DEF Reject, SetRun, TypeOK
<1>5. ASSUME NEW w \in SUBSET Nodes, ApproveStepGate(w) PROVE TypeOK'
  BY <1>1, <1>5 DEF ApproveStepGate, SetRun, TypeOK
<1>6. CASE CancelRun
  <2>1. approval' \in [ApprovalNodes ->
          [state : {"none", "pending", "approved", "rejected", "cancelled"},
           late : BOOLEAN]]
    <3>1. ASSUME NEW a \in ApprovalNodes
          PROVE [approval[a] EXCEPT !.state = "cancelled"] \in
              [state : {"none", "pending", "approved", "rejected", "cancelled"},
               late : BOOLEAN]
      BY DEF TypeOK
    <3> QED
      BY <1>6, <3>1 DEF CancelRun, TypeOK
  <2>2. gate' \in [SUBSET Nodes -> {"none", "pending", "approved", "inactive"}]
    BY <1>6 DEF CancelRun, TypeOK
  <2> QED
    BY <1>1, <1>6, <2>1, <2>2, SettleType DEF CancelRun, SetRun, TypeOK
<1>7. CASE EngageKillSwitch
  <2>1. [spent EXCEPT !.kill = @ + 1] \in [crash : Nat, kill : Nat, mode : Nat]
    BY DEF TypeOK
  <2> QED
    BY <1>7, <2>1 DEF EngageKillSwitch, TypeOK
<1>8. CASE ReleaseKillSwitch
  BY <1>8 DEF ReleaseKillSwitch, TypeOK
<1>9. CASE SetMode
  BY <1>9 DEF SetMode, TypeOK
<1>10. CASE HaltActiveRuns
  BY <1>1, <1>10, SettleType DEF HaltActiveRuns, HaltTx, SetRun, TypeOK
<1> QED
  BY <1>3, <1>4, <1>5, <1>6, <1>7, <1>8, <1>9, <1>10 DEF People

\* Deadlines, lapsing leases and crashes keep the types.
LEMMA EnvironmentType == ASSUME TypeOK, Environment PROVE TypeOK'
<1>1. CASE DeadlinePasses
  BY <1>1 DEF DeadlinePasses, TypeOK
<1>2. ASSUME NEW n \in Nodes, LeaseLapses(n) PROVE TypeOK'
  BY <1>2 DEF LeaseLapses, LapsedLease, TypeOK
<1>3. ASSUME NEW e \in Executors, Crash(e) PROVE TypeOK'
  <2>1. [spent EXCEPT !.crash = @ + 1] \in [crash : Nat, kill : Nat, mode : Nat]
    BY DEF TypeOK
  <2>2. /\ pc' \in [Executors -> Labels]
        /\ view' \in [Executors -> Views]
        /\ work' \in [Executors -> [Nodes -> Items]]
    BY <1>3, EmptyTypes DEF Crash, Goto, Labels, TypeOK
  <2>3. resumeOwed' \in BOOLEAN
    BY <1>3 DEF Crash, TypeOK
  <2> QED
    BY <1>3, <2>1, <2>2, <2>3 DEF Crash, TypeOK
<1> QED
  BY <1>1, <1>2, <1>3 DEF Environment

\* Whatever the graph, the number of replicas and the bounds, the rows and the
\* replicas stay well typed; elapsed never gets more than one ahead of the
\* deadline, however often approvals extend it.
THEOREM TypeCorrect == Spec => []TypeOK
<1>1. ASSUME TypeOK, [Next]_vars PROVE TypeOK'
  <2>1. CASE Next
    BY <1>1, <2>1, CallType, LoopType, AttemptType, HeartbeatType, PeopleType,
       EnvironmentType DEF Next
  <2>2. CASE UNCHANGED vars
    BY <1>1, <2>2 DEF TypeOK, vars
  <2> QED
    BY <1>1, <2>1, <2>2
<1> QED
  BY <1>1, InitType, PTL DEF Spec

(***************************************************************************)
(* Safety.                                                                 *)
(***************************************************************************)
Open == {"pending", "running", "waiting_approval"}

\* An empty attempt has no phase, no token and no gate.
LEMMA NoItemFields ==
    /\ NoItem.phase = "none" /\ NoItem.token = NoToken /\ NoItem.gate = NoNode
    /\ NoItem \in Items
  BY EmptyTypes DEF NoItem

\* How a step changes the node rows.
Claims(e, n) ==
    /\ status[n] = "pending" /\ work[e][n].phase = "claim" /\ Claim(e, n)

\* An action succeeds by an attempt that dispatched it, and is skipped by one that
\* the graph told to.
Earned(n, new) ==
    Kind[n] = "action" =>
        /\ new = "succeeded" => \E e \in Executors : work[e][n].phase = "dispatched"
        /\ new = "skipped" => \E e \in Executors : work[e][n].phase = "skip"

Retires(n) ==
    \E new \in {"pending", "succeeded", "skipped", "failed", "waiting_approval"} :
        /\ SettleNodes({n}, new) /\ Earned(n, new)
        /\ \/ status[n] \in {"running", "waiting_approval"}
           \/ status[n] = "pending" /\ \E e \in Executors : work[e][n].phase # "none"

Reclaims ==
    \E ns \in SUBSET {n \in Nodes : status[n] = "running"} : SettleNodes(ns, "pending")

Cancels ==
    /\ runStatus' = "cancelled"
    /\ \E ns \in SUBSET {n \in Nodes : status[n] \in Open} : SettleNodes(ns, "cancelled")

NodeStep ==
    \/ UNCHANGED nodeVars
    \/ UNCHANGED <<status, attempt, token>>
         /\ \A n \in Nodes : lease'[n] = lease[n] \/ (status[n] = "running" /\ lease'[n] # NoLease)
    \/ \E e \in Executors, n \in Nodes : Claims(e, n)
    \/ \E n \in Nodes : Retires(n)
    \/ Reclaims
    \/ Cancels

\* Every step changes the node rows in one of six ways: not at all, a lease that
\* is renewed or lapses, a claim, the retirement of one node, a reclaim of running
\* nodes, or a cancellation.
LEMMA NodeSteps == ASSUME TypeOK, Next PROVE NodeStep
<1>1. ASSUME NEW e \in Executors, Call(e) PROVE UNCHANGED nodeVars
  BY <1>1 DEF Call, Sweep, Resume, ResumeOwed
<1>2. ASSUME NEW e \in Executors, Loop(e) PROVE NodeStep
  <2>1. CASE RecoverInterruptedNodes(e)
    BY <2>1 DEF RecoverInterruptedNodes, NodeStep, Reclaims
  <2>2. CASE HaltRun(e)
    BY <2>2 DEF HaltRun, HaltTx, NodeStep, Reclaims
  <2>3. CASE ~RecoverInterruptedNodes(e) /\ ~HaltRun(e)
    <3>1. UNCHANGED nodeVars
      BY <1>2, <2>3 DEF Loop, Enter, EnterNodes, RestoreGate, RestoreApprovalWait,
         Govern, MarkRunRunning, ReadRun, ReadNodes, Decide, FailRun, CompleteRun,
         AllowWave, RequestStepGate, WaveDone
    <3> QED
      BY <3>1 DEF NodeStep
  <2> QED
    BY <2>1, <2>2, <2>3
<1>3. ASSUME NEW e \in Executors, NEW n \in Nodes, Attempt(e, n) PROVE NodeStep
  <2>1. CASE StartNode(e, n)
    BY <2>1 DEF StartNode, NodeStep, Claims
  <2>2. CASE Dispatch(e, n)
    BY <2>2 DEF Dispatch, NodeStep
  <2>3. CASE ~StartNode(e, n) /\ ~Dispatch(e, n)
    <3>1. UNCHANGED nodeVars \/ Retires(n)
      BY <1>3, <2>3 DEF Attempt, SkipNode, ExhaustPendingNode, SucceedNode, SkipDeniedRead,
         AttemptFails, WaitForApproval, SettleOwned, Owned, Retires, Earned
    <3> QED
      BY <3>1 DEF NodeStep
  <2> QED
    BY <2>1, <2>2, <2>3
<1>4. ASSUME NEW e \in Executors, NEW n \in Nodes, HeartbeatNode(e, n) PROVE NodeStep
  <2>1. work[e][n].deadline \in Nat
    BY DEF TypeOK, Items
  <2> QED
    BY <1>4, <2>1 DEF HeartbeatNode, Owned, NodeStep, NoLease, TypeOK
<1>5. ASSUME People PROVE NodeStep
  <2>1. ASSUME NEW a \in ApprovalNodes, Approve(a) PROVE NodeStep
    <3>1. Retires(a)
      BY <2>1 DEF Approve, Retires, Earned, ApprovalNodes
    <3> QED
      BY <3>1, NodeFacts DEF NodeStep
  <2>2. ASSUME NEW a \in ApprovalNodes, Reject(a) PROVE NodeStep
    <3>1. {a} \in SUBSET {n \in Nodes : status[n] \in Open}
      BY <2>2, NodeFacts DEF Reject, Open
    <3> QED
      BY <2>2, <3>1 DEF Reject, SetRun, NodeStep, Cancels
  <2>3. CASE CancelRun
    BY <2>3 DEF CancelRun, SetRun, NodeStep, Cancels, Open
  <2>4. CASE HaltActiveRuns
    BY <2>4 DEF HaltActiveRuns, HaltTx, NodeStep, Reclaims
  <2>5. ASSUME \/ \E w \in SUBSET Nodes : ApproveStepGate(w)
               \/ EngageKillSwitch \/ ReleaseKillSwitch \/ SetMode
        PROVE  NodeStep
    BY <2>5 DEF ApproveStepGate, EngageKillSwitch, ReleaseKillSwitch, SetMode, NodeStep
  <2> QED
    BY <1>5, <2>1, <2>2, <2>3, <2>4, <2>5 DEF People
<1>6. ASSUME Environment PROVE NodeStep
  <2>1. CASE DeadlinePasses
    BY <2>1 DEF DeadlinePasses, NodeStep
  <2>2. ASSUME NEW n \in Nodes, LeaseLapses(n) PROVE NodeStep
    BY <2>2 DEF LeaseLapses, LapsedLease, NoLease, NodeStep, TypeOK
  <2>3. ASSUME NEW e \in Executors, Crash(e) PROVE NodeStep
    BY <2>3 DEF Crash, NodeStep
  <2> QED
    BY <1>6, <2>1, <2>2, <2>3 DEF Environment
<1>7. UNCHANGED nodeVars => NodeStep
  BY DEF NodeStep
<1> QED
  BY <1>1, <1>2, <1>3, <1>4, <1>5, <1>6, <1>7 DEF Next

\* No step changes the status of a node that has ended.
LEMMA ResultsKept ==
    ASSUME TypeOK, [Next]_vars, NEW n \in Nodes,
           status[n] \in TerminalNode \cup {"failed"}
    PROVE  status'[n] = status[n]
<1>1. NodeStep
  BY NodeSteps DEF NodeStep, vars
<1>2. ASSUME NEW e \in Executors, NEW m \in Nodes, Claims(e, m) PROVE status'[n] = status[n]
  BY <1>2 DEF Claims, Claim, TerminalNode, TypeOK
<1>3. ASSUME NEW m \in Nodes, Retires(m) PROVE status'[n] = status[n]
  BY <1>3 DEF Retires, SettleNodes, TerminalNode
<1>4. CASE Reclaims
  BY <1>4 DEF Reclaims, SettleNodes, TerminalNode
<1>5. CASE Cancels
  BY <1>5 DEF Cancels, SettleNodes, TerminalNode, Open
<1> QED
  BY <1>1, <1>2, <1>3, <1>4, <1>5 DEF NodeStep

\* What a node ended with is never overwritten: not by a late replica whose lease
\* was reclaimed, not by a halt, a cancellation or a second attempt.
THEOREM ResultsAreFinal == Spec => ResultsFinal
<1>1. ASSUME TypeOK, [Next]_vars
      PROVE  [\A n \in Nodes : status[n] \in TerminalNode \cup {"failed"}
                 => status'[n] = status[n]]_vars
  BY <1>1, ResultsKept
<1> QED
  BY <1>1, TypeCorrect, PTL DEF Spec, ResultsFinal

\* The dependencies of a node are nodes (validateAgentGraph).
LEMMA DepsAreNodes == ASSUME NEW n \in Nodes PROVE Deps[n] \in SUBSET Nodes
  BY GraphAssumption DEF GraphAssumption

\* How a step changes the attempts that a replica holds.
WorkStep(e, n) ==
    \/ work'[e][n] = work[e][n]
    \/ work'[e][n] = NoItem
    \/ n \in Ready(view[e].status) /\ work'[e][n] = Item(n, view[e])
    \/ /\ work[e][n].phase # "none"
       /\ work'[e][n].token = work[e][n].token
       /\ work'[e][n].gate = work[e][n].gate
       /\ work'[e][n].phase = "exhaust"
             \/ (work'[e][n].phase = "dispatched" /\ Dispatch(e, n))
    \/ Claims(e, n)

\* Planning a wave fills in attempts only of nodes that the view finds ready.
LEMMA WaveSteps ==
    ASSUME TypeOK, NEW e \in Executors, NEW n \in Nodes,
           NEW f \in Executors, StartWave(f)
    PROVE  WorkStep(e, n)
  BY DEF TypeOK, StartWave, WorkStep

\* A step of one attempt changes no other attempt, and its own only forwards.
LEMMA AttemptWorkSteps ==
    ASSUME TypeOK, NEW e \in Executors, NEW n \in Nodes,
           NEW f \in Executors, NEW m \in Nodes, Attempt(f, m)
    PROVE  WorkStep(e, n)
<1>1. ASSUME Finish(f, m) PROVE WorkStep(e, n)
  BY <1>1 DEF Finish, TypeOK, WorkStep
<1>2. ASSUME work[f][m].phase # "none", NEW p \in Phases,
             work' = [work EXCEPT ![f][m].phase = p],
             p = "exhaust" \/ (p = "dispatched" /\ Dispatch(f, m))
      PROVE  WorkStep(e, n)
  <2>1. work[f][m] \in Items
    BY DEF TypeOK
  <2>0. [work[f][m] EXCEPT !.phase = p].phase = p
    BY <2>1 DEF Items
  <2>2. [work[f][m] EXCEPT !.phase = p].token = work[f][m].token
    BY <2>1 DEF Items
  <2>3. [work[f][m] EXCEPT !.phase = p].gate = work[f][m].gate
    BY <2>1 DEF Items
  <2>4. CASE e = f /\ n = m
    BY <1>2, <2>0, <2>2, <2>3, <2>4 DEF TypeOK, WorkStep
  <2>5. CASE ~(e = f /\ n = m)
    BY <1>2, <2>5 DEF TypeOK, WorkStep
  <2> QED
    BY <2>4, <2>5
<1>3. ASSUME Claims(f, m) PROVE WorkStep(e, n)
  <2>1. CASE e = f /\ n = m
    BY <1>3, <2>1 DEF WorkStep
  <2>2. CASE ~(e = f /\ n = m)
    BY <1>3, <2>2 DEF Claims, Claim, TypeOK, WorkStep
  <2> QED
    BY <2>1, <2>2
<1>4. CASE StartNode(f, m)
  BY <1>1, <1>2, <1>3, <1>4 DEF StartNode, Claims, Phases
<1>5. CASE Dispatch(f, m)
  BY <1>2, <1>5 DEF Dispatch, Phases
<1> QED
  BY <1>1, <1>4, <1>5 DEF Attempt, SkipNode, ExhaustPendingNode, SucceedNode,
     SkipDeniedRead, AttemptFails, WaitForApproval

\* Every step changes what a replica holds of an attempt as WorkStep says.
LEMMA WorkSteps ==
    ASSUME TypeOK, [Next]_vars, NEW e \in Executors, NEW n \in Nodes
    PROVE  WorkStep(e, n)
<1>1. UNCHANGED work => WorkStep(e, n)
  BY DEF WorkStep
<1>2. ASSUME NEW f \in Executors, Call(f) PROVE UNCHANGED work
  BY <1>2 DEF Call, Sweep, Resume, ResumeOwed
<1>3. ASSUME NEW f \in Executors, Loop(f) PROVE UNCHANGED work \/ StartWave(f)
  BY <1>3 DEF Loop, Enter, EnterNodes, RestoreGate, RestoreApprovalWait,
     RecoverInterruptedNodes, Govern, MarkRunRunning, ReadRun, ReadNodes, Decide,
     HaltRun, FailRun, CompleteRun, AllowWave, RequestStepGate, WaveDone
<1>4. ASSUME NEW f \in Executors, NEW m \in Nodes, HeartbeatNode(f, m) PROVE UNCHANGED work
  BY <1>4 DEF HeartbeatNode
<1>5. ASSUME People PROVE UNCHANGED work
  BY <1>5 DEF People, Approve, Reject, ApproveStepGate, CancelRun, EngageKillSwitch,
     HaltActiveRuns, ReleaseKillSwitch, SetMode
<1>6. CASE Environment
  <2>1. ASSUME NEW f \in Executors, Crash(f) PROVE WorkStep(e, n)
    BY <2>1 DEF Crash, TypeOK, WorkStep
  <2> QED
    BY <1>1, <1>6, <2>1 DEF Environment, DeadlinePasses, LeaseLapses
<1>7. UNCHANGED vars => UNCHANGED work
  BY DEF vars
<1> QED
  BY <1>1, <1>2, <1>3, <1>4, <1>5, <1>6, <1>7, WaveSteps, AttemptWorkSteps DEF Next

\* How a step changes what a replica has read.
ViewStep(e) ==
    \/ view'[e].status = view[e].status
    \/ view'[e] = NoView
    \/ view'[e].status = status

\* A replica's view is kept, dropped, or read from the rows as they are.
LEMMA ViewSteps ==
    ASSUME TypeOK, [Next]_vars, NEW e \in Executors
    PROVE  ViewStep(e)
<1>1. UNCHANGED view => ViewStep(e)
  BY DEF ViewStep
<1>2. ASSUME NEW f \in Executors, view' = [view EXCEPT ![f] = NoView] PROVE ViewStep(e)
  BY <1>2 DEF TypeOK, ViewStep
<1>3. ASSUME NEW f \in Executors, Call(f) PROVE UNCHANGED view
  BY <1>3 DEF Call, Sweep, Resume, ResumeOwed
<1>4. ASSUME NEW f \in Executors, Loop(f) PROVE ViewStep(e)
  <2>1. CASE ReadRun(f)
    <3>1. view[f] \in Views
      BY DEF TypeOK
    <3>2. [view[f] EXCEPT !.deadline = deadline].status = view[f].status
      BY <3>1 DEF Views
    <3>3. UNCHANGED view \/ view' = [view EXCEPT ![f] = [view[f] EXCEPT !.deadline = deadline]]
      BY <2>1 DEF ReadRun
    <3> QED
      BY <1>1, <3>2, <3>3 DEF TypeOK, ViewStep
  <2>2. CASE ReadNodes(f)
    <3> DEFINE read == [deadline |-> view[f].deadline, status |-> status, attempt |-> attempt]
    <3>1. view' = [view EXCEPT ![f] = read]
      BY <2>2 DEF ReadNodes
    <3>2. read.status = status
      OBVIOUS
    <3> HIDE DEF read
    <3> QED
      BY <3>1, <3>2 DEF TypeOK, ViewStep
  <2>3. CASE ~ReadRun(f) /\ ~ReadNodes(f)
    <3>1. UNCHANGED view \/ view' = [view EXCEPT ![f] = NoView]
      BY <1>4, <2>3 DEF Loop, Enter, EnterNodes, RestoreGate, RestoreApprovalWait,
         RecoverInterruptedNodes, Govern, MarkRunRunning, Decide, HaltRun, FailRun,
         CompleteRun, AllowWave, RequestStepGate, StartWave, WaveDone
    <3> QED
      BY <1>1, <1>2, <3>1
  <2> QED
    BY <2>1, <2>2, <2>3
<1>5. ASSUME NEW f \in Executors, NEW m \in Nodes, Attempt(f, m) \/ HeartbeatNode(f, m)
      PROVE  UNCHANGED view
  BY <1>5 DEF Attempt, SkipNode, ExhaustPendingNode, StartNode, SucceedNode,
     SkipDeniedRead, AttemptFails, WaitForApproval, Dispatch, HeartbeatNode
<1>6. ASSUME People PROVE UNCHANGED view
  BY <1>6 DEF People, Approve, Reject, ApproveStepGate, CancelRun, EngageKillSwitch,
     HaltActiveRuns, ReleaseKillSwitch, SetMode
<1>7. ASSUME Environment PROVE ViewStep(e)
  BY <1>1, <1>2, <1>7 DEF Environment, DeadlinePasses, LeaseLapses, Crash
<1>8. UNCHANGED vars => UNCHANGED view
  BY DEF vars
<1> QED
  BY <1>1, <1>3, <1>4, <1>5, <1>6, <1>7, <1>8 DEF Next

\* No step changes a completed, failed or cancelled run row: each writer filters
\* on the status, or the trigger agent_run_lifecycle_guard refuses it.
LEMMA RunSteps == ASSUME [Next]_vars, runStatus \in TerminalRun PROVE runVars' = runVars
<1>1. /\ \A new : ~LifecycleAllows(runStatus, new)
      /\ runStatus \notin OpenRun /\ runStatus \notin HaltSources
      /\ runStatus \notin {"pending", "running", "waiting_step", "waiting_approval", "halted"}
  BY DEF TerminalRun, OpenRun, HaltSources, LifecycleAllows
<1>2. ASSUME NEW e \in Executors, Call(e) PROVE UNCHANGED runVars
  BY <1>2 DEF Call, Sweep, Resume, ResumeOwed
<1>3. ASSUME NEW e \in Executors, Loop(e) PROVE UNCHANGED runVars
  BY <1>1, <1>3 DEF Loop, Enter, EnterNodes, RestoreGate, RestoreApprovalWait,
     RecoverInterruptedNodes, Govern, MarkRunRunning, ReadRun, ReadNodes, Decide,
     HaltRun, HaltTx, FailRun, CompleteRun, MoveRun, AllowWave, RequestStepGate, WaveDone
<1>4. ASSUME NEW e \in Executors, NEW n \in Nodes, Attempt(e, n) PROVE UNCHANGED runVars
  BY <1>1, <1>4 DEF Attempt, SkipNode, ExhaustPendingNode, StartNode, Claim, SucceedNode,
     SkipDeniedRead, AttemptFails, WaitForApproval, Dispatch
<1>5. ASSUME NEW e \in Executors, NEW n \in Nodes, HeartbeatNode(e, n) PROVE UNCHANGED runVars
  BY <1>5 DEF HeartbeatNode
<1>6. ASSUME People PROVE UNCHANGED runVars
  BY <1>1, <1>6 DEF People, Approve, Reject, ApproveStepGate, CancelRun, EngageKillSwitch,
     HaltActiveRuns, HaltTx, ReleaseKillSwitch, SetMode
<1>7. ASSUME Environment PROVE UNCHANGED runVars
  BY <1>7 DEF Environment, DeadlinePasses, LeaseLapses, Crash
<1> QED
  BY <1>2, <1>3, <1>4, <1>5, <1>6, <1>7 DEF Next, vars

\* The terminal status, budget and deadline of a run are never overwritten, by
\* whichever replica or person (agent_run_lifecycle_guard and the CAS updates).
THEOREM TerminalRunIsFinal == Spec => TerminalRunFinal
<1>1. ASSUME [Next]_vars PROVE [(runStatus \in TerminalRun) => runVars' = runVars]_vars
  BY <1>1, RunSteps
<1> QED
  BY <1>1, PTL DEF Spec, TerminalRunFinal

\* Only the claim of a node consumes a step of the budget.
LEMMA BudgetSteps ==
    ASSUME [Next]_vars
    PROVE  \/ consumedSteps' = consumedSteps
           \/ \E e \in Executors, n \in Nodes : Claims(e, n)
<1>1. ASSUME NEW e \in Executors, Call(e) \/ Loop(e) PROVE UNCHANGED consumedSteps
  BY <1>1 DEF Call, Sweep, Resume, ResumeOwed, Loop, Enter, EnterNodes, RestoreGate,
     RestoreApprovalWait, RecoverInterruptedNodes, Govern, MarkRunRunning, ReadRun,
     ReadNodes, Decide, HaltRun, HaltTx, FailRun, CompleteRun, MoveRun, SetRun, AllowWave,
     RequestStepGate, WaveDone
<1>2. ASSUME NEW e \in Executors, NEW n \in Nodes, Attempt(e, n)
      PROVE  UNCHANGED consumedSteps \/ Claims(e, n)
  BY <1>2 DEF Attempt, SkipNode, ExhaustPendingNode, StartNode, Claims, SucceedNode,
     SkipDeniedRead, AttemptFails, WaitForApproval, SetRun, Dispatch
<1>3. ASSUME NEW e \in Executors, NEW n \in Nodes, HeartbeatNode(e, n)
      PROVE  UNCHANGED consumedSteps
  BY <1>3 DEF HeartbeatNode
<1>4. ASSUME People PROVE UNCHANGED consumedSteps
  BY <1>4 DEF People, Approve, Reject, SetRun, ApproveStepGate, CancelRun,
     EngageKillSwitch, HaltActiveRuns, HaltTx, ReleaseKillSwitch, SetMode
<1>5. ASSUME Environment PROVE UNCHANGED consumedSteps
  BY <1>5 DEF Environment, DeadlinePasses, LeaseLapses, Crash
<1> QED
  BY <1>1, <1>2, <1>3, <1>4, <1>5 DEF Next, vars

\* A claim makes one attempt more, and nothing else makes or unmakes an attempt.
LEMMA AttemptSteps ==
    ASSUME TypeOK, [Next]_vars
    PROVE  \/ consumedSteps' = consumedSteps /\ attempt' = attempt
           \/ \E e \in Executors, n \in Nodes : Claims(e, n)
<1>1. CASE \E e \in Executors, n \in Nodes : Claims(e, n)
  BY <1>1
<1>2. CASE ~\E e \in Executors, n \in Nodes : Claims(e, n)
  <2>1. NodeStep
    BY NodeSteps DEF NodeStep, vars
  <2>2. attempt' = attempt
    BY <1>2, <2>1 DEF NodeStep, Retires, Reclaims, Cancels, SettleNodes
  <2> QED
    BY <1>2, <2>2, BudgetSteps
<1> QED
  BY <1>1, <1>2

\* The budget counts exactly the attempts made and is never overdrawn, however
\* many replicas claim at once: startNode adds one to both in one transaction.
THEOREM BudgetCounts == Spec => []StepBudget
<1> DEFINE IInv == StepBudget /\ IsFiniteSet(AttemptsMade)
<1>1. ASSUME Init PROVE IInv
  <2>1. AttemptsMade = {}
    BY <1>1 DEF Init, AttemptsMade
  <2> QED
    BY <1>1, <2>1, FS_EmptySet, GraphAssumption DEF Init, StepBudget, GraphAssumption
<1>2. ASSUME TypeOK, IInv, [Next]_vars PROVE IInv'
  <2>1. CASE consumedSteps' = consumedSteps /\ attempt' = attempt
    BY <1>2, <2>1 DEF StepBudget, AttemptsMade
  <2>2. ASSUME NEW e \in Executors, NEW n \in Nodes, Claims(e, n) PROVE IInv'
    <3> DEFINE made == <<n, attempt[n] + 1>>
    <3>1. /\ consumedSteps < MaxSteps /\ consumedSteps' = consumedSteps + 1
          /\ attempt' = [attempt EXCEPT ![n] = @ + 1]
      BY <2>2 DEF Claims, Claim
    <3>2. consumedSteps \in Nat /\ attempt \in [Nodes -> Nat] /\ MaxSteps \in Nat
      BY <1>2, GraphAssumption DEF TypeOK, GraphAssumption
    <3>3. 1..attempt'[n] = (1..attempt[n]) \cup {attempt[n] + 1}
      BY <3>1, <3>2
    <3>4. \A m \in Nodes \ {n} : attempt'[m] = attempt[m]
      BY <3>1, <3>2
    <3>5. AttemptsMade' = AttemptsMade \cup {made}
      BY <3>3, <3>4 DEF AttemptsMade
    <3>6. made \notin AttemptsMade
      BY <3>2 DEF AttemptsMade
    <3>7. /\ IsFiniteSet(AttemptsMade')
          /\ Cardinality(AttemptsMade') = Cardinality(AttemptsMade) + 1
      <4> HIDE DEF made
      <4> QED
        BY <1>2, <3>5, <3>6, FS_AddElement
    <3> QED
      BY <1>2, <3>1, <3>2, <3>7 DEF StepBudget
  <2> QED
    BY <1>2, <2>1, <2>2, AttemptSteps
<1>3. IInv => StepBudget
  OBVIOUS
<1> QED
  BY <1>1, <1>2, <1>3, TypeCorrect, PTL DEF Spec

\* How a step changes the approvals and the record of dispatched actions.
GateStep ==
    \/ UNCHANGED approval
    \/ \E a \in ApprovalNodes :
          /\ approval[a].state = "none" /\ runStatus = "running"
          /\ runStatus' = "waiting_approval" /\ UNCHANGED dispatched
          /\ approval' = [approval EXCEPT ![a] = [state |-> "pending",
                                                  late |-> deadline < elapsed]]
    \/ \E a \in ApprovalNodes : Approve(a) \/ Reject(a)
    \/ CancelRun

\* Approvals change by a request, a decision or a cancellation, and only
\* dispatch records an action.
LEMMA GateSteps ==
    ASSUME [Next]_vars
    PROVE  /\ GateStep
           /\ dispatched' = dispatched \/ \E e \in Executors, n \in Nodes : Dispatch(e, n)
<1>1. ASSUME NEW e \in Executors, Call(e) \/ Loop(e) PROVE UNCHANGED <<approval, dispatched>>
  BY <1>1 DEF Call, Sweep, Resume, ResumeOwed, Loop, Enter, EnterNodes, RestoreGate,
     RestoreApprovalWait, RecoverInterruptedNodes, Govern, MarkRunRunning, ReadRun,
     ReadNodes, Decide, HaltRun, FailRun, CompleteRun, AllowWave, RequestStepGate, WaveDone
<1>2. ASSUME NEW e \in Executors, NEW n \in Nodes, Attempt(e, n)
      PROVE  GateStep /\ (UNCHANGED dispatched \/ Dispatch(e, n))
  <2>1. CASE WaitForApproval(e, n)
    BY <2>1 DEF WaitForApproval, SetRun, GateStep, ApprovalNodes
  <2>2. CASE Dispatch(e, n)
    BY <2>2 DEF Dispatch, GateStep
  <2>3. CASE ~WaitForApproval(e, n) /\ ~Dispatch(e, n)
    BY <1>2, <2>3 DEF Attempt, SkipNode, ExhaustPendingNode, StartNode, SucceedNode,
       SkipDeniedRead, AttemptFails, GateStep
  <2> QED
    BY <2>1, <2>2, <2>3
<1>3. ASSUME NEW e \in Executors, NEW n \in Nodes, HeartbeatNode(e, n)
      PROVE  UNCHANGED <<approval, dispatched>>
  BY <1>3 DEF HeartbeatNode
<1>4. ASSUME People PROVE GateStep /\ UNCHANGED dispatched
  BY <1>4 DEF People, Approve, Reject, ApproveStepGate, CancelRun, EngageKillSwitch,
     HaltActiveRuns, ReleaseKillSwitch, SetMode, GateStep
<1>5. ASSUME Environment PROVE UNCHANGED <<approval, dispatched>>
  BY <1>5 DEF Environment, DeadlinePasses, LeaseLapses, Crash
<1> QED
  BY <1>1, <1>2, <1>3, <1>4, <1>5 DEF Next, vars, GateStep

\* No step changes an approval that was decided or withdrawn.
LEMMA DecisionsKept ==
    ASSUME TypeOK, [Next]_vars, NEW a \in ApprovalNodes,
           approval[a].state \in {"approved", "rejected", "cancelled"}
    PROVE  approval'[a] = approval[a]
<1>1. ASSUME NEW b \in ApprovalNodes, Approve(b) \/ Reject(b) PROVE approval'[a] = approval[a]
  BY <1>1 DEF Approve, Reject, TypeOK
<1>2. CASE CancelRun
  BY <1>2 DEF CancelRun, TypeOK
<1> QED
  BY <1>1, <1>2, GateSteps DEF GateStep, TypeOK

\* A human decision is final whatever races with it: decideApproval and cancelRun
\* change pending approvals only.
THEOREM DecisionsAreFinal == Spec => DecisionsFinal
<1>1. ASSUME TypeOK, [Next]_vars
      PROVE  [\A a \in ApprovalNodes :
                 approval[a].state \in {"approved", "rejected", "cancelled"}
                     => approval'[a] = approval[a]]_vars
  BY <1>1, DecisionsKept
<1> QED
  BY <1>1, TypeCorrect, PTL DEF Spec, DecisionsFinal

\* A node whose dependencies have ended stays such a node, and an approval above
\* it, once given, stays given.
LEMMA SettledKept ==
    ASSUME TypeOK, [Next]_vars, NEW n \in Nodes
    PROVE  /\ Settled(n) => Settled(n)'
           /\ ApprovedAncestors(n, status) \subseteq ApprovedAncestors(n, status')
<1>1. \A m \in Nodes : status[m] \in TerminalNode => status'[m] = status[m]
  BY ResultsKept
<1>2. Settled(n) => Settled(n)'
  BY <1>1, DepsAreNodes DEF Settled
<1>3. ApprovedAncestors(n, status) \subseteq ApprovedAncestors(n, status')
  BY <1>1 DEF ApprovedAncestors, Ancestors, TerminalNode
<1> QED
  BY <1>2, <1>3

\* Ownership is kept: a claim draws its token from the step budget, so that no
\* replica holds the same, and whatever ends an attempt clears the token.
LEMMA OwnersKept ==
    ASSUME TypeOK, OneOwner, TokensDrawn, [Next]_vars
    PROVE  OneOwner' /\ TokensDrawn'
<1>1. CASE \E e \in Executors, n \in Nodes : Claims(e, n)
  <2>1. PICK e \in Executors, n \in Nodes : Claims(e, n)
    BY <1>1
  <2> DEFINE new == consumedSteps + 1
  <2>2. new \in Nat /\ new # NoToken /\ new > consumedSteps
    BY DEF TypeOK, NoToken
  <2>3. /\ consumedSteps' = new
        /\ status' = [status EXCEPT ![n] = "running"]
        /\ token' = [token EXCEPT ![n] = new]
        /\ lease' = [lease EXCEPT ![n] = work[e][n].deadline]
        /\ work' = [work EXCEPT ![e] = [work[e] EXCEPT ![n] =
                       [work[e][n] EXCEPT !.phase = "busy", !.token = new]]]
    BY <2>1 DEF Claims, Claim
  <2>4. work[e][n].deadline # NoLease /\ work[e][n] \in Items
    BY DEF TypeOK, Items, NoLease
  <2>5. [work[e][n] EXCEPT !.phase = "busy", !.token = new].token = new
    BY <2>4 DEF Items
  <2> HIDE DEF new
  <2>6. \A f \in Executors, m \in Nodes :
            work'[f][m].token = IF f = e /\ m = n THEN new ELSE work[f][m].token
    BY <2>3, <2>5 DEF TypeOK
  <2>7. \A f \in Executors, m \in Nodes : work[f][m].token \in Nat
    BY DEF TypeOK, Items
  <2>8. TokensDrawn'
    BY <2>2, <2>3, <2>6, <2>7 DEF TokensDrawn, TypeOK
  <2>9. \A m \in Nodes : /\ (status'[m] = "running") <=> (token'[m] # NoToken)
                         /\ (status'[m] = "running") <=> (lease'[m] # NoLease)
    BY <2>2, <2>3, <2>4 DEF OneOwner, TypeOK
  <2>10. ASSUME NEW f \in Executors, NEW g \in Executors, NEW m \in Nodes,
                work'[f][m].token # NoToken, work'[f][m].token = work'[g][m].token
         PROVE  f = g
    <3>1. work[f][m].token =< consumedSteps /\ work[g][m].token =< consumedSteps
      BY DEF TokensDrawn
    <3>2. CASE m = n /\ (f = e \/ g = e)
      BY <2>2, <2>6, <2>7, <2>10, <3>1, <3>2 DEF TypeOK
    <3>3. CASE ~(m = n /\ (f = e \/ g = e))
      BY <2>6, <2>10, <3>3 DEF OneOwner
    <3> QED
      BY <3>2, <3>3
  <2> QED
    BY <2>8, <2>9, <2>10 DEF OneOwner
<1>2. CASE ~\E e \in Executors, n \in Nodes : Claims(e, n)
  <2>1. consumedSteps' = consumedSteps
    BY <1>2, BudgetSteps
  <2>2. \A e \in Executors, n \in Nodes : work'[e][n].token \in {work[e][n].token, NoToken}
    <3>1. \A e \in Executors, n \in Nodes : Item(n, view[e]).token = NoToken
      BY DEF Item
    <3> QED
      BY <1>2, <3>1, WorkSteps, NoItemFields DEF WorkStep
  <2> DEFINE Held ==
          /\ \A n \in Nodes : token'[n] \in {token[n], NoToken}
          /\ \A n \in Nodes : (status'[n] = "running") <=> (token'[n] # NoToken)
          /\ \A n \in Nodes : (status'[n] = "running") <=> (lease'[n] # NoLease)
  <2>3. Held
    <3>1. NodeStep
      BY NodeSteps DEF NodeStep, vars
    <3>2. ASSUME NEW n \in Nodes, Retires(n) PROVE Held
      BY <3>2 DEF Retires, SettleNodes, OneOwner, TypeOK
    <3>3. ASSUME Reclaims PROVE Held
      BY <3>3 DEF Reclaims, SettleNodes, OneOwner, TypeOK
    <3>4. ASSUME Cancels PROVE Held
      BY <3>4 DEF Cancels, SettleNodes, OneOwner, TypeOK
    <3>5. ASSUME UNCHANGED <<status, attempt, token>>,
                 \A n \in Nodes : lease'[n] = lease[n]
                                    \/ (status[n] = "running" /\ lease'[n] # NoLease)
          PROVE Held
      BY <3>5 DEF OneOwner
    <3> QED
      BY <1>2, <3>1, <3>2, <3>3, <3>4, <3>5 DEF NodeStep
  <2>4. TokensDrawn'
    <3>1. NoToken =< consumedSteps
      BY DEF TypeOK, NoToken
    <3>2. ASSUME NEW n \in Nodes PROVE token'[n] =< consumedSteps
      BY <2>3, <3>1 DEF TokensDrawn
    <3>3. ASSUME NEW e \in Executors, NEW n \in Nodes PROVE work'[e][n].token =< consumedSteps
      BY <2>2, <3>1 DEF TokensDrawn
    <3> QED
      BY <2>1, <3>2, <3>3 DEF TokensDrawn
  <2> QED
    BY <2>2, <2>3, <2>4 DEF OneOwner
<1> QED
  BY <1>1, <1>2

\* The ends a replica has read are still the ends of the rows, however stale its
\* view, because results are final.
LEMMA ViewsKept == ASSUME TypeOK, ViewHolds, [Next]_vars PROVE ViewHolds'
<1> SUFFICES ASSUME NEW e \in Executors, NEW n \in Nodes,
                    view'[e].status[n] \in TerminalNode
             PROVE  status'[n] = view'[e].status[n]
  BY DEF ViewHolds
<1>1. CASE view'[e].status = view[e].status
  BY <1>1, ResultsKept DEF ViewHolds
<1>2. CASE view'[e] = NoView
  BY <1>2 DEF NoView, TerminalNode
<1>3. CASE view'[e].status = status
  BY <1>3, ResultsKept
<1> QED
  BY <1>1, <1>2, <1>3, ViewSteps DEF ViewStep

\* What a replica plans from a stale view is justified all the same.
LEMMA PlansJustified ==
    ASSUME TypeOK, ViewHolds, NEW e \in Executors, NEW n \in Ready(view[e].status)
    PROVE  /\ n \in Nodes /\ Settled(n)
           /\ Item(n, view[e]).gate # NoNode
                => Item(n, view[e]).gate \in ApprovedAncestors(n, status)
<1>1. n \in Nodes
  BY DEF Ready
<1>2. Settled(n)
  BY <1>1, DepsAreNodes DEF Ready, Settled, ViewHolds
<1>3. ApprovedAncestors(n, view[e].status) \subseteq ApprovedAncestors(n, status)
  BY DEF ApprovedAncestors, Ancestors, ViewHolds, TerminalNode
<1>4. Item(n, view[e]).gate # NoNode
         => Item(n, view[e]).gate \in ApprovedAncestors(n, view[e].status)
  BY DEF Item
<1> QED
  BY <1>1, <1>2, <1>3, <1>4

\* Planned and running attempts stay justified: what justified them is final.
LEMMA WorkKept ==
    ASSUME TypeOK, ViewHolds, WorkJustified, [Next]_vars PROVE WorkJustified'
<1> SUFFICES ASSUME NEW e \in Executors, NEW n \in Nodes
             PROVE  /\ work'[e][n].phase # "none" => Settled(n)'
                    /\ work'[e][n].gate # NoNode
                          => work'[e][n].gate \in ApprovedAncestors(n, status')
  BY DEF WorkJustified
<1>1. /\ Settled(n) => Settled(n)'
      /\ ApprovedAncestors(n, status) \subseteq ApprovedAncestors(n, status')
  BY SettledKept
<1>2. CASE work'[e][n] = work[e][n]
  BY <1>1, <1>2 DEF WorkJustified
<1>3. CASE work'[e][n] = NoItem
  BY <1>3, NoItemFields
<1>4. CASE n \in Ready(view[e].status) /\ work'[e][n] = Item(n, view[e])
  BY <1>1, <1>4, PlansJustified
<1>5. CASE work[e][n].phase # "none" /\ work'[e][n].gate = work[e][n].gate
  BY <1>1, <1>5 DEF WorkJustified
<1>6. CASE Claims(e, n)
  <2>1. work[e][n] \in Items
    BY DEF TypeOK
  <2>2. work'[e][n].gate = work[e][n].gate
    BY <1>6, <2>1 DEF Claims, Claim, Items, TypeOK
  <2> QED
    BY <1>1, <1>6, <2>2 DEF Claims, WorkJustified
<1> QED
  BY <1>2, <1>3, <1>4, <1>5, <1>6, WorkSteps DEF WorkStep

\* A node that leaves pending by its execution has settled dependencies.
LEMMA NodesKept ==
    ASSUME TypeOK, WorkJustified, NodesJustified, [Next]_vars PROVE NodesJustified'
<1> SUFFICES ASSUME NEW n \in Nodes,
                    attempt'[n] > 0 \/ n \in dispatched'
                       \/ status'[n] \notin {"pending", "cancelled"}
             PROVE  Settled(n)
  BY SettledKept DEF NodesJustified
<1>1. CASE \E e \in Executors : Claims(e, n) \/ Dispatch(e, n)
  BY <1>1 DEF Claims, Dispatch, WorkJustified
<1>2. CASE Retires(n)
  BY <1>2 DEF Retires, WorkJustified, NodesJustified
<1>3. CASE ~(\E e \in Executors : Claims(e, n) \/ Dispatch(e, n)) /\ ~Retires(n)
  <2>1. n \in dispatched' => n \in dispatched
    BY <1>3, GateSteps DEF Dispatch
  <2> DEFINE Idle ==
          /\ attempt'[n] = attempt[n]
          /\ status'[n] = status[n] \/ status'[n] \in {"pending", "cancelled"}
  <2>2. Idle
    <3>1. NodeStep
      BY NodeSteps DEF NodeStep, vars
    <3>2. ASSUME NEW e \in Executors, NEW m \in Nodes, Claims(e, m) PROVE Idle
      BY <1>3, <3>2 DEF Claims, Claim, TypeOK
    <3>3. ASSUME NEW m \in Nodes, Retires(m) PROVE Idle
      BY <1>3, <3>3 DEF Retires, SettleNodes, TypeOK
    <3>4. CASE Reclaims
      BY <3>4 DEF Reclaims, SettleNodes, TypeOK
    <3>5. CASE Cancels
      BY <3>5 DEF Cancels, SettleNodes, TypeOK
    <3> QED
      BY <3>1, <3>2, <3>3, <3>4, <3>5 DEF NodeStep
  <2> QED
    BY <1>3, <2>1, <2>2 DEF NodesJustified
<1> QED
  BY <1>1, <1>2, <1>3

\* Nodes are cancelled only with their run, by Reject or CancelRun.
LEMMA CancelsKept ==
    ASSUME TypeOK, CancelsTogether, [Next]_vars PROVE CancelsTogether'
<1> SUFFICES ASSUME NEW n \in Nodes, status'[n] = "cancelled" PROVE runStatus' = "cancelled"
  BY DEF CancelsTogether
<1>1. status[n] = "cancelled" => runStatus' = "cancelled"
  BY RunSteps DEF CancelsTogether, TerminalRun
<1>2. CASE Cancels
  BY <1>2 DEF Cancels
<1>3. CASE ~Cancels
  <2>1. ASSUME NEW e \in Executors, NEW m \in Nodes, Claims(e, m) PROVE status[n] = "cancelled"
    BY <2>1 DEF Claims, Claim, TypeOK
  <2>2. ASSUME NEW m \in Nodes, Retires(m) PROVE status[n] = "cancelled"
    BY <2>2 DEF Retires, SettleNodes, TypeOK
  <2>3. ASSUME Reclaims PROVE status[n] = "cancelled"
    BY <2>3 DEF Reclaims, SettleNodes, TypeOK
  <2>4. NodeStep
    BY NodeSteps DEF NodeStep, vars
  <2> QED
    BY <1>1, <1>3, <2>1, <2>2, <2>3, <2>4 DEF NodeStep
<1> QED
  BY <1>2, <1>3

\* An action is dispatched only under an approved gate (AgentActionService).
LEMMA ActionsKept ==
    ASSUME TypeOK, WorkJustified, ActionsFollowApproval, [Next]_vars
    PROVE  ActionsFollowApproval'
<1> SUFFICES ASSUME NEW n \in dispatched'
             PROVE  \E a \in ApprovalNodes \cap Ancestors(n) :
                       approval'[a].state = "approved" /\ status'[a] = "succeeded"
  BY DEF ActionsFollowApproval
<1>1. ASSUME NEW a \in ApprovalNodes \cap Ancestors(n),
             approval[a].state = "approved", status[a] = "succeeded"
      PROVE  approval'[a].state = "approved" /\ status'[a] = "succeeded"
  BY <1>1, DecisionsKept, ResultsKept, NodeFacts DEF TerminalNode
<1>2. CASE n \in dispatched
  BY <1>1, <1>2 DEF ActionsFollowApproval
<1>3. CASE n \notin dispatched
  <2>1. PICK e \in Executors, m \in Nodes : Dispatch(e, m)
    BY <1>3, GateSteps
  <2>2. Dispatch(e, n) /\ n \in Nodes
    BY <1>3, <2>1 DEF Dispatch
  <2> DEFINE a == work[e][n].gate
  <2>3. approval[a].state = "approved" /\ a \in ApprovedAncestors(n, status)
    BY <2>2 DEF Dispatch, WorkJustified
  <2>4. a \in ApprovalNodes \cap Ancestors(n) /\ status[a] = "succeeded"
    BY <2>3 DEF ApprovedAncestors, Ancestors, ApprovalNodes
  <2> QED
    BY <1>1, <2>3, <2>4
<1> QED
  BY <1>2, <1>3

\* While no node is cancelled, everything above an ended node has ended.
LEMMA AncestorsSettled ==
    ASSUME NodesJustified, NEW n \in Nodes, Settled(n),
           \A m \in Nodes : status[m] # "cancelled",
           NEW a \in Ancestors(n)
    PROVE  status[a] \in TerminalNode
<1> DEFINE S == {m \in Nodes : status[m] \in TerminalNode}
<1>1. Deps[n] \subseteq S
  BY DepsAreNodes DEF Settled
<1>2. ASSUME NEW k \in S PROVE Deps[k] \subseteq S
  <2>1. status[k] \notin {"pending", "cancelled"}
    BY DEF TerminalNode
  <2> QED
    BY <2>1, DepsAreNodes DEF NodesJustified, Settled
<1>3. S \in SUBSET Nodes
  OBVIOUS
<1> HIDE DEF S
<1>4. a \in S
  BY <1>1, <1>2, <1>3 DEF Ancestors
<1> QED
  BY <1>4 DEF S

\* A rejection closes the mission with the actions behind the gate not done:
\* the gate was waiting, so no node below it had settled dependencies.
LEMMA RejectionsKept ==
    ASSUME TypeOK, WorkJustified, NodesJustified, CancelsTogether, RejectedNeverActs,
           ActionsFollowApproval, [Next]_vars
    PROVE  RejectedNeverActs'
<1> SUFFICES ASSUME NEW a \in ApprovalNodes, approval'[a].state = "rejected"
             PROVE  /\ runStatus' = "cancelled"
                    /\ \A n \in dispatched' : a \notin Ancestors(n)
  BY DEF RejectedNeverActs
<1>1. CASE approval[a].state = "rejected"
  <2>1. runStatus = "cancelled" /\ \A n \in dispatched : a \notin Ancestors(n)
    BY <1>1 DEF RejectedNeverActs
  <2>2. runStatus' = "cancelled"
    BY <2>1, RunSteps DEF TerminalRun
  <2>3. dispatched' = dispatched
    BY <2>1, GateSteps DEF Dispatch
  <2> QED
    BY <2>1, <2>2, <2>3
<1>2. CASE approval[a].state # "rejected"
  <2>1. Reject(a)
    <3>1. ASSUME NEW b \in ApprovalNodes, Approve(b) PROVE FALSE
      BY <1>2, <3>1 DEF Approve, TypeOK
    <3>2. ASSUME NEW b \in ApprovalNodes, Reject(b) PROVE a = b
      BY <1>2, <3>2 DEF Reject, TypeOK
    <3>3. ASSUME CancelRun PROVE FALSE
      BY <1>2, <3>3 DEF CancelRun, TypeOK
    <3> QED
      BY <1>2, <3>1, <3>2, <3>3, GateSteps DEF GateStep, TypeOK
  <2>2. runStatus' = "cancelled" /\ dispatched' = dispatched
    BY <2>1 DEF Reject, SetRun
  <2>3. ASSUME NEW n \in dispatched, a \in Ancestors(n) PROVE FALSE
    <3>1. n \in Nodes /\ Settled(n)
      BY NodeFacts DEF TypeOK, NodesJustified
    <3>2. \A m \in Nodes : status[m] # "cancelled"
      BY <2>1 DEF Reject, CancelsTogether
    <3>3. status[a] \in TerminalNode
      BY <2>3, <3>1, <3>2, AncestorsSettled
    <3> QED
      BY <2>1, <3>3 DEF Reject, TerminalNode
  <2> QED
    BY <2>2, <2>3
<1> QED
  BY <1>1, <1>2

\* A new run is justified.
LEMMA InitJustified == Init => Justified
<1> SUFFICES ASSUME Init PROVE Justified
  OBVIOUS
<1>1. ViewHolds /\ NodesJustified /\ CancelsTogether
  BY DEF Init, ViewHolds, NoView, TerminalNode, NodesJustified, CancelsTogether
<1>2. TokensDrawn /\ OneOwner /\ WorkJustified
  BY NoItemFields DEF Init, TokensDrawn, OneOwner, WorkJustified, NoToken
<1>3. ActionsFollowApproval /\ RejectedNeverActs
  BY DEF Init, ActionsFollowApproval, RejectedNeverActs
<1> QED
  BY <1>1, <1>2, <1>3 DEF Justified

\* The inductive invariant: whatever a replica holds from an older read is still
\* justified by the rows, for every graph and any number of replicas.
THEOREM JustifiedAlways == Spec => []Justified
<1>1. ASSUME TypeOK, Justified, [Next]_vars PROVE Justified'
  BY <1>1, ViewsKept, OwnersKept, WorkKept, NodesKept, CancelsKept, ActionsKept,
     RejectionsKept DEF Justified
<1> QED
  BY <1>1, InitJustified, TypeCorrect, PTL DEF Spec

\* A running node has exactly one owner (the execution lease of startNode).
THEOREM OwnersAreUnique == Spec => []OneOwner
  BY JustifiedAlways, PTL DEF Justified

\* An action was dispatched only if a person approved a gate above it.
THEOREM ActionsAreApproved == Spec => []ActionsFollowApproval
  BY JustifiedAlways, PTL DEF Justified

\* A rejected mission is cancelled for good and none of its actions behind the
\* rejected gate was ever dispatched.
THEOREM RejectionsHold == Spec => []RejectedNeverActs
  BY JustifiedAlways, PTL DEF Justified

\* No node starts or ends before everything it depends on has ended, however
\* stale the view that planned it (readyAgentNodes).
THEOREM OrderHolds == Spec => []DependencyOrder
<1>1. Justified => DependencyOrder
  BY DEF Justified, NodesJustified, DependencyOrder, Settled
<1> QED
  BY <1>1, JustifiedAlways, PTL

(***************************************************************************)
(* Control.                                                                *)
(***************************************************************************)
\* How a step changes the Proceed gates.
StepGateStep ==
    \/ UNCHANGED gate
    \/ \E w \in SUBSET Nodes :
          /\ gate[w] = "none" /\ LifecycleAllows(runStatus, "waiting_step")
          /\ gate' = [gate EXCEPT ![w] = "pending"]
    \/ \E w \in SUBSET Nodes : ApproveStepGate(w)
    \/ CancelRun

\* A Proceed gate is requested, approved or retired with its mission.
LEMMA StepGateSteps == ASSUME [Next]_vars PROVE StepGateStep
<1>1. ASSUME NEW e \in Executors, Loop(e) PROVE StepGateStep
  <2>1. CASE RequestStepGate(e)
    <3>1. Ready(view[e].status) \in SUBSET Nodes
      BY DEF Ready
    <3> QED
      BY <2>1, <3>1 DEF RequestStepGate, StepGateStep
  <2>2. CASE ~RequestStepGate(e)
    BY <1>1, <2>2 DEF Loop, Enter, EnterNodes, RestoreGate, RestoreApprovalWait,
       RecoverInterruptedNodes, Govern, MarkRunRunning, ReadRun, ReadNodes, Decide,
       HaltRun, FailRun, CompleteRun, AllowWave, WaveDone, StepGateStep
  <2> QED
    BY <2>1, <2>2
<1>2. ASSUME NEW e \in Executors, Call(e) PROVE UNCHANGED gate
  BY <1>2 DEF Call, Sweep, Resume, ResumeOwed
<1>3. ASSUME NEW e \in Executors, NEW n \in Nodes, Attempt(e, n) \/ HeartbeatNode(e, n)
      PROVE  UNCHANGED gate
  BY <1>3 DEF Attempt, SkipNode, ExhaustPendingNode, StartNode, SucceedNode,
     SkipDeniedRead, AttemptFails, WaitForApproval, Dispatch, HeartbeatNode
<1>4. ASSUME People PROVE StepGateStep
  BY <1>4 DEF People, Approve, Reject, CancelRun, EngageKillSwitch, HaltActiveRuns,
     ReleaseKillSwitch, SetMode, StepGateStep
<1>5. ASSUME Environment PROVE UNCHANGED gate
  BY <1>5 DEF Environment, DeadlinePasses, LeaseLapses, Crash
<1> QED
  BY <1>1, <1>2, <1>3, <1>4, <1>5 DEF Next, vars, StepGateStep

\* Only a person cancels a run: by cancelling it, or by rejecting an approval.
LEMMA CancelledByPeople ==
    ASSUME [Next]_vars, runStatus # "cancelled", runStatus' = "cancelled"
    PROVE  CancelRun \/ \E a \in ApprovalNodes : Reject(a)
<1>1. ASSUME NEW e \in Executors, Call(e) PROVE FALSE
  BY <1>1 DEF Call, Sweep, Resume, ResumeOwed
<1>2. ASSUME NEW e \in Executors, Loop(e) PROVE FALSE
  BY <1>2 DEF Loop, Enter, EnterNodes, RestoreGate, RestoreApprovalWait,
     RecoverInterruptedNodes, Govern, MarkRunRunning, ReadRun, ReadNodes, Decide,
     HaltRun, HaltTx, FailRun, CompleteRun, MoveRun, SetRun, AllowWave, RequestStepGate,
     WaveDone
<1>3. ASSUME NEW e \in Executors, NEW n \in Nodes, Attempt(e, n) \/ HeartbeatNode(e, n)
      PROVE  FALSE
  BY <1>3 DEF Attempt, SkipNode, ExhaustPendingNode, StartNode, Claim, SucceedNode,
     SkipDeniedRead, AttemptFails, WaitForApproval, SetRun, Dispatch, HeartbeatNode
<1>4. ASSUME People PROVE CancelRun \/ \E a \in ApprovalNodes : Reject(a)
  BY <1>4 DEF People, Approve, ApproveStepGate, SetRun, EngageKillSwitch, HaltActiveRuns,
     HaltTx, ReleaseKillSwitch, SetMode
<1>5. ASSUME Environment PROVE FALSE
  BY <1>5 DEF Environment, DeadlinePasses, LeaseLapses, Crash
<1> QED
  BY <1>1, <1>2, <1>3, <1>4, <1>5 DEF Next, vars

\* What is open in a cancelled mission: a pending approval, a node that could
\* still be claimed or answered, a pending Proceed gate.
Quiet ==
    /\ \A a \in ApprovalNodes : approval[a].state # "pending"
    /\ \A n \in Nodes : status[n] \notin Open
    /\ \A w \in SUBSET Nodes : gate[w] # "pending"

\* Nothing opens again in a cancelled mission: every writer that could open a row
\* needs a run that is not cancelled, or a row that is open.
LEMMA QuietKept ==
    ASSUME TypeOK, [Next]_vars, runStatus = "cancelled", Quiet PROVE Quiet'
<1>1. ASSUME NEW a \in ApprovalNodes PROVE approval'[a].state # "pending"
  <2>1. ASSUME NEW b \in ApprovalNodes, Approve(b) \/ Reject(b) PROVE FALSE
    BY <2>1 DEF Approve, Reject
  <2>2. CASE CancelRun
    BY <2>2 DEF CancelRun, OpenRun, HaltSources
  <2> QED
    BY <2>1, <2>2, GateSteps DEF GateStep, Quiet
<1>2. ASSUME NEW n \in Nodes PROVE status'[n] \notin Open
  <2>1. NodeStep
    BY NodeSteps DEF NodeStep, vars
  <2>2. ASSUME NEW e \in Executors, NEW m \in Nodes, Claims(e, m) PROVE FALSE
    BY <2>2 DEF Claims, Quiet, Open
  <2>3. ASSUME NEW m \in Nodes, Retires(m) PROVE FALSE
    BY <2>3 DEF Retires, Quiet, Open
  <2>4. ASSUME Reclaims PROVE status'[n] \notin Open
    BY <2>4 DEF Reclaims, SettleNodes, Quiet, Open
  <2>5. ASSUME Cancels PROVE status'[n] \notin Open
    BY <2>5 DEF Cancels, SettleNodes, Quiet, Open
  <2> QED
    BY <2>1, <2>2, <2>3, <2>4, <2>5 DEF NodeStep, Quiet
<1>3. ASSUME NEW w \in SUBSET Nodes PROVE gate'[w] # "pending"
  <2>1. ~LifecycleAllows(runStatus, "waiting_step")
    BY DEF LifecycleAllows, TerminalRun
  <2>2. ASSUME NEW v \in SUBSET Nodes, ApproveStepGate(v) PROVE FALSE
    BY <2>2 DEF ApproveStepGate
  <2>3. CASE CancelRun
    BY <2>3 DEF CancelRun, OpenRun, HaltSources
  <2> QED
    BY <2>1, <2>2, <2>3, StepGateSteps DEF StepGateStep, Quiet
<1> QED
  BY <1>1, <1>2, <1>3 DEF Quiet

\* A mission that was cancelled otherwise than by a rejection is quiet.
Rejected == \E a \in ApprovalNodes : approval[a].state = "rejected"
Hushed == runStatus = "cancelled" /\ ~Rejected => Quiet

\* cancelRun leaves nothing open, in whatever state people and replicas have
\* brought the mission.
LEMMA CancelQuiets == ASSUME TypeOK, CancelRun PROVE Quiet'
<1>1. ASSUME NEW a \in ApprovalNodes PROVE approval'[a].state # "pending"
  BY DEF CancelRun, TypeOK
<1>2. ASSUME NEW n \in Nodes PROVE status'[n] \notin Open
  BY DEF CancelRun, SettleNodes, Open
<1>3. ASSUME NEW w \in SUBSET Nodes PROVE gate'[w] # "pending"
  BY DEF CancelRun
<1> QED
  BY <1>1, <1>2, <1>3 DEF Quiet

\* Cancelling leaves nothing for a person or a replica to act on, then and ever
\* after (cancelRun).
THEOREM CancelledStaysQuiet == Spec => []CancelledIsQuiet
<1>1. Init => Hushed
  BY DEF Init, Hushed
<1>2. ASSUME TypeOK, Hushed, [Next]_vars PROVE Hushed'
  <2> SUFFICES ASSUME runStatus' = "cancelled", ~Rejected' PROVE Quiet'
    BY DEF Hushed
  <2>1. ~Rejected
    BY <1>2, DecisionsKept DEF Rejected
  <2>2. CASE runStatus = "cancelled"
    BY <1>2, <2>1, <2>2, QuietKept DEF Hushed
  <2>3. CASE runStatus # "cancelled"
    <3>1. ASSUME NEW a \in ApprovalNodes, Reject(a) PROVE Rejected'
      BY <1>2, <3>1 DEF Reject, TypeOK, Rejected
    <3> QED
      BY <1>2, <2>3, <3>1, CancelledByPeople, CancelQuiets
  <2> QED
    BY <2>2, <2>3
<1>3. Hushed => CancelledIsQuiet
  BY DEF Hushed, Rejected, CancelledIsQuiet, Quiet, Open
<1> QED
  BY <1>1, <1>2, <1>3, TypeCorrect, PTL DEF Spec

\* A person has let the node proceed.
Asked(n) == \E w \in SUBSET Nodes : n \in w /\ gate[w] = "approved"

\* While the tenant's mode has always been step_by_step it still is, and whatever
\* was attempted or is planned by a replica has been let proceed.
AllAsked ==
    StartMode = "step_by_step" /\ spent.mode = 0 =>
        /\ mode = "step_by_step"
        /\ \A n \in Nodes : attempt[n] > 0 => Asked(n)
        /\ \A e \in Executors, n \in Nodes : work[e][n].phase # "none" => Asked(n)

\* An approved Proceed gate stays approved.
LEMMA AskedKept == ASSUME TypeOK, [Next]_vars, NEW n \in Nodes, Asked(n) PROVE Asked(n)'
<1>1. PICK w \in SUBSET Nodes : n \in w /\ gate[w] = "approved"
  BY DEF Asked
<1>2. ASSUME NEW v \in SUBSET Nodes, ApproveStepGate(v) PROVE gate'[w] = "approved"
  BY <1>1, <1>2 DEF ApproveStepGate, TypeOK
<1>3. ASSUME CancelRun PROVE gate'[w] = "approved"
  BY <1>1, <1>3 DEF CancelRun, TypeOK
<1>4. ASSUME NEW v \in SUBSET Nodes, gate[v] = "none",
             gate' = [gate EXCEPT ![v] = "pending"]
      PROVE  gate'[w] = "approved"
  BY <1>1, <1>4 DEF TypeOK
<1>5. gate'[w] = "approved"
  BY <1>1, <1>2, <1>3, <1>4, StepGateSteps DEF StepGateStep
<1> QED
  BY <1>1, <1>5 DEF Asked

\* In step_by_step mode a wave starts only behind an approved gate that names
\* exactly its nodes.
LEMMA WavesAsked ==
    ASSUME TypeOK, [Next]_vars, mode = "step_by_step",
           NEW e \in Executors, NEW n \in Nodes, work'[e][n].phase # "none"
    PROVE  work[e][n].phase # "none" \/ Asked(n)
<1>0. work'[e][n] = work[e][n] => work[e][n].phase # "none"
  OBVIOUS
<1>1. ASSUME NEW f \in Executors, StartWave(f), gate[Ready(view[f].status)] = "approved"
      PROVE  work[e][n].phase # "none" \/ Asked(n)
  <2>1. Ready(view[f].status) \in SUBSET Nodes
    BY DEF Ready
  <2>2. CASE e = f
    <3>1. work'[e][n] = IF n \in Ready(view[e].status) THEN Item(n, view[e]) ELSE NoItem
      BY <1>1, <2>2 DEF StartWave, TypeOK
    <3> QED
      BY <1>1, <2>1, <2>2, <3>1, NoItemFields DEF Asked
  <2>3. CASE e # f
    BY <1>1, <2>3 DEF StartWave, TypeOK
  <2> QED
    BY <2>2, <2>3
<1>2. ASSUME NEW f \in Executors, Loop(f) PROVE work[e][n].phase # "none" \/ Asked(n)
  <2>1. CASE RequestStepGate(f)
    BY <1>1, <2>1 DEF RequestStepGate
  <2>2. CASE ~RequestStepGate(f)
    BY <1>2, <2>2 DEF Loop, Enter, EnterNodes, RestoreGate, RestoreApprovalWait,
       RecoverInterruptedNodes, Govern, MarkRunRunning, ReadRun, ReadNodes, Decide,
       HaltRun, FailRun, CompleteRun, AllowWave, WaveDone
  <2> QED
    BY <2>1, <2>2
<1>3. ASSUME NEW f \in Executors, Call(f) PROVE UNCHANGED work
  BY <1>3 DEF Call, Sweep, Resume, ResumeOwed
<1>4. ASSUME NEW f \in Executors, NEW m \in Nodes, Attempt(f, m)
      PROVE  work[e][n].phase # "none"
  <2>1. work[f][m].phase # "none"
    BY <1>4 DEF Attempt, SkipNode, ExhaustPendingNode, StartNode, SucceedNode,
       SkipDeniedRead, AttemptFails, WaitForApproval, Dispatch
  <2>2. (e = f /\ n = m) \/ work'[e][n] = work[e][n]
    BY <1>4 DEF Attempt, SkipNode, ExhaustPendingNode, StartNode, Claim, SucceedNode,
       SkipDeniedRead, AttemptFails, WaitForApproval, Dispatch, Finish, TypeOK
  <2> QED
    BY <1>0, <2>1, <2>2
<1>5. ASSUME NEW f \in Executors, NEW m \in Nodes, HeartbeatNode(f, m) PROVE UNCHANGED work
  BY <1>5 DEF HeartbeatNode
<1>6. ASSUME People PROVE UNCHANGED work
  BY <1>6 DEF People, Approve, Reject, ApproveStepGate, CancelRun, EngageKillSwitch,
     HaltActiveRuns, ReleaseKillSwitch, SetMode
<1>7. ASSUME NEW f \in Executors, Crash(f) PROVE work[e][n].phase # "none"
  BY <1>7, NoItemFields DEF Crash, TypeOK
<1> QED
  BY <1>2, <1>3, <1>4, <1>5, <1>6, <1>7
     DEF Next, vars, Environment, DeadlinePasses, LeaseLapses

\* Only the owner of the tenant's settings changes the autonomy mode.
LEMMA ModeSteps ==
    ASSUME TypeOK, [Next]_vars, spent'.mode = 0 PROVE spent.mode = 0 /\ mode' = mode
<1>1. ASSUME NEW e \in Executors, Call(e) \/ Loop(e) PROVE UNCHANGED <<mode, spent>>
  BY <1>1 DEF Call, Sweep, Resume, ResumeOwed, Loop, Enter, EnterNodes, RestoreGate,
     RestoreApprovalWait, RecoverInterruptedNodes, Govern, MarkRunRunning, ReadRun,
     ReadNodes, Decide, HaltRun, FailRun, CompleteRun, AllowWave, RequestStepGate, WaveDone
<1>2. ASSUME NEW e \in Executors, NEW n \in Nodes, Attempt(e, n) \/ HeartbeatNode(e, n)
      PROVE  UNCHANGED <<mode, spent>>
  BY <1>2 DEF Attempt, SkipNode, ExhaustPendingNode, StartNode, SucceedNode,
     SkipDeniedRead, AttemptFails, WaitForApproval, Dispatch, HeartbeatNode
<1>3. ASSUME People PROVE spent.mode = 0 /\ mode' = mode
  <2>1. ~SetMode
    BY DEF SetMode, TypeOK
  <2> QED
    BY <1>3, <2>1 DEF People, Approve, Reject, ApproveStepGate, CancelRun,
       EngageKillSwitch, HaltActiveRuns, ReleaseKillSwitch, TypeOK
<1>4. ASSUME Environment PROVE spent.mode = 0 /\ mode' = mode
  BY <1>4 DEF Environment, DeadlinePasses, LeaseLapses, Crash, TypeOK
<1> QED
  BY <1>1, <1>2, <1>3, <1>4 DEF Next, vars

\* Where the tenant asks to approve every step, no node is attempted that a person
\* has not let proceed, whoever else executes the mission meanwhile.
THEOREM NothingUnasked == Spec => []NothingStartsUnasked
<1>1. Init => AllAsked
  BY NoItemFields DEF Init, AllAsked
<1>2. ASSUME TypeOK, AllAsked, [Next]_vars PROVE AllAsked'
  <2> SUFFICES ASSUME StartMode = "step_by_step", spent'.mode = 0
               PROVE  /\ mode' = "step_by_step"
                      /\ \A n \in Nodes : attempt'[n] > 0 => Asked(n)'
                      /\ \A e \in Executors, n \in Nodes :
                            work'[e][n].phase # "none" => Asked(n)'
    BY DEF AllAsked
  <2>1. /\ mode = "step_by_step" /\ mode' = "step_by_step"
        /\ \A n \in Nodes : attempt[n] > 0 => Asked(n)
        /\ \A e \in Executors, n \in Nodes : work[e][n].phase # "none" => Asked(n)
    BY <1>2, ModeSteps DEF AllAsked
  <2>2. ASSUME NEW n \in Nodes, attempt'[n] > 0 PROVE Asked(n)'
    <3>1. attempt'[n] = attempt[n] \/ \E e \in Executors : Claims(e, n)
      <4>1. NodeStep
        BY <1>2, NodeSteps DEF NodeStep, vars
      <4>2. ASSUME NEW e \in Executors, NEW m \in Nodes, Claims(e, m), m # n
            PROVE  attempt'[n] = attempt[n]
        BY <1>2, <4>2 DEF Claims, Claim, TypeOK
      <4> QED
        BY <4>1, <4>2 DEF NodeStep, Retires, Reclaims, Cancels, SettleNodes
    <3>2. ASSUME NEW e \in Executors, Claims(e, n) PROVE Asked(n)
      BY <2>1, <3>2 DEF Claims
    <3> QED
      BY <1>2, <2>1, <2>2, <3>1, <3>2, AskedKept
  <2>3. ASSUME NEW e \in Executors, NEW n \in Nodes, work'[e][n].phase # "none"
        PROVE  Asked(n)'
    BY <1>2, <2>1, <2>3, WavesAsked, AskedKept
  <2> QED
    BY <2>1, <2>2, <2>3
<1>3. AllAsked => NothingStartsUnasked
  BY DEF AllAsked, Asked, NothingStartsUnasked
<1> QED
  BY <1>1, <1>2, <1>3, TypeCorrect, PTL DEF Spec

\* A new mission has asked nothing and done nothing.
LEMMA InitPromised == Init => Promise!GateInit
  BY DEF Init, Promise!GateInit, TerminalRun

\* What the promise sees of a step that leaves approvals and actions alone.
LEMMA CloseOrStutter ==
    ASSUME [Next]_vars, UNCHANGED <<approval, dispatched>>
    PROVE  [Promise!GateNext]_(Promise!gateSpecVars)
<1>1. CASE runStatus \in TerminalRun
  BY <1>1, RunSteps DEF Promise!gateSpecVars
<1>2. CASE runStatus \notin TerminalRun /\ runStatus' \notin TerminalRun
  BY <1>2 DEF Promise!gateSpecVars
<1>3. CASE runStatus \notin TerminalRun /\ runStatus' \in TerminalRun
  BY <1>3 DEF Promise!Close, Promise!GateNext
<1> QED
  BY <1>1, <1>2, <1>3

\* A dispatch is an action of the promise, or repeats one already done.
LEMMA ActPromised ==
    ASSUME TypeOK, WorkJustified, NEW e \in Executors, NEW n \in Nodes, Dispatch(e, n)
    PROVE  [Promise!GateNext]_(Promise!gateSpecVars)
<1> DEFINE a == work[e][n].gate
<1>1. n \in ActionNodes /\ runStatus \notin TerminalRun
  BY DEF Dispatch, ActionNodes, TerminalRun
<1>2. a \in ApprovalNodes \cap Ancestors(n) /\ approval[a].state = "approved"
  BY DEF Dispatch, WorkJustified, ApprovedAncestors, Ancestors, ApprovalNodes
<1>3. UNCHANGED <<runStatus, approval>> /\ dispatched' = dispatched \cup {n}
  BY DEF Dispatch
<1>4. CASE n \in dispatched
  <2>1. dispatched' = dispatched
    BY <1>3, <1>4
  <2> QED
    BY <1>3, <2>1 DEF Promise!gateSpecVars
<1>5. CASE n \notin dispatched
  <2> HIDE DEF a
  <2>1. Promise!Act(n)
    BY <1>1, <1>2, <1>3, <1>5 DEF Promise!Act
  <2> QED
    BY <1>1, <2>1 DEF Promise!GateNext
<1> QED
  BY <1>4, <1>5

\* Every step of the rows and the replicas is a step of the promise, or changes
\* nothing of what the promise speaks of.
LEMMA StepPromised ==
    ASSUME TypeOK, WorkJustified, [Next]_vars
    PROVE  [Promise!GateNext]_(Promise!gateSpecVars)
<1> DEFINE Answers == [a \in ApprovalNodes |-> approval[a].state]
<1>1. ASSUME NEW a \in ApprovalNodes,
             approval[a].state = "none", runStatus = "running",
             runStatus' = "waiting_approval", UNCHANGED dispatched,
             approval' = [approval EXCEPT ![a] = [state |-> "pending",
                                                  late |-> deadline < elapsed]]
      PROVE  Promise!Ask(a)
  <2>1. Answers' = [Answers EXCEPT ![a] = "pending"]
    BY <1>1 DEF TypeOK
  <2> QED
    BY <1>1, <2>1 DEF Promise!Ask, TerminalRun
<1>2. ASSUME NEW a \in ApprovalNodes, Approve(a) PROVE Promise!Grant(a)
  <2>1. Answers' = [Answers EXCEPT ![a] = "approved"]
    BY <1>2 DEF Approve, TypeOK
  <2> QED
    BY <1>2, <2>1 DEF Approve, Promise!Grant, TerminalRun
<1>3. ASSUME NEW a \in ApprovalNodes, Reject(a) PROVE Promise!Refuse(a)
  <2>1. Answers' = [Answers EXCEPT ![a] = "rejected"]
    BY <1>3 DEF Reject, TypeOK
  <2> QED
    BY <1>3, <2>1 DEF Reject, SetRun, Promise!Refuse, TerminalRun
<1>4. ASSUME CancelRun PROVE Promise!Close
  <2>1. Answers' = [a \in ApprovalNodes |-> IF Answers[a] = "pending" THEN "cancelled"
                                            ELSE Answers[a]]
    BY <1>4 DEF CancelRun, TypeOK
  <2> QED
    BY <1>4, <2>1 DEF CancelRun, SetRun, OpenRun, HaltSources, Promise!Close, TerminalRun
<1>5. ASSUME UNCHANGED approval PROVE [Promise!GateNext]_(Promise!gateSpecVars)
  BY <1>5, CloseOrStutter, ActPromised, GateSteps
<1> QED
  BY <1>1, <1>2, <1>3, <1>4, <1>5, GateSteps DEF GateStep, Promise!GateNext

\* For every graph and any number of replicas the mission implements MissionGate:
\* actions only under an approved gate, at most once, while the mission is open;
\* answers at most once; and a closed mission stays closed.
THEOREM Refinement == Spec => KeepsPromise
<1>1. TypeOK /\ Justified /\ [Next]_vars => [Promise!GateNext]_(Promise!gateSpecVars)
  BY StepPromised DEF Justified
<1> QED
  BY <1>1, InitPromised, TypeCorrect, JustifiedAlways, PTL
     DEF Spec, KeepsPromise, Promise!GateSpec

(***************************************************************************)
(* Truthful completion.                                                    *)
(***************************************************************************)
\* What the graphs of graph-registry.service.ts have in common beyond what
\* validateAgentGraph asks for: a node is conditional on a node that it also
\* depends on.  Without it a replica that read the condition as unmet may skip
\* a node that another one, whose lease lapsed, has dispatched.
ConditionsUpstream ==
    \A n \in Nodes : Condition[n] # NoNode => Condition[n] \in Ancestors(n)

\* What a replica has read is closed: above a node whose dependencies it saw ended,
\* it saw everything ended.
ViewsClosed ==
    \A e \in Executors, n \in Nodes :
        (\A d \in Deps[n] : view[e].status[d] \in TerminalNode)
            => \A a \in Ancestors(n) : view[e].status[a] \in TerminalNode

\* A plan to skip or to run agrees with the rows as they are now, and with the
\* actions that were dispatched.
PlansAgree ==
    \A e \in Executors, n \in Nodes :
        /\ work[e][n].phase = "skip" => SkippedByGraph(n, status)
        /\ work[e][n].phase \in {"claim", "busy", "dispatched"}
               => ~SkippedByGraph(n, status)
        /\ work[e][n].phase = "dispatched" => n \in dispatched

\* An action is reported as done only if it was dispatched, and never as skipped
\* if it was.
EvidenceAgrees ==
    /\ \A n \in ActionNodes : status[n] = "succeeded" => n \in dispatched
    /\ \A n \in dispatched : status[n] # "skipped" /\ ~SkippedByGraph(n, status)

\* A run that is completed, or about to be, has no unfinished node.
EndIsReal ==
    /\ \A e \in Executors : pc[e] = "completeNow" => AllNodesTerminal(status)
    /\ runStatus = "completed" => AllNodesTerminal(status)

\* As long as nobody cancels the mission.
Truthful ==
    /\ EndIsReal
    /\ runStatus # "cancelled" => ViewsClosed /\ PlansAgree /\ EvidenceAgrees

\* A replica decides to complete when its view has no unfinished node.
LEMMA CompletionSteps ==
    ASSUME TypeOK, [Next]_vars, NEW e \in Executors, pc'[e] = "completeNow"
    PROVE  pc[e] = "completeNow" \/ AllNodesTerminal(view[e].status)
<1>1. UNCHANGED pc => pc[e] = "completeNow"
  OBVIOUS
<1>2. ASSUME NEW f \in Executors, NEW l \in Labels \ {"completeNow"}, Goto(f, l)
      PROVE  pc[e] = "completeNow"
  BY <1>2 DEF Goto, TypeOK
<1>3. ASSUME NEW f \in Executors, Call(f) PROVE pc[e] = "completeNow"
  BY <1>1, <1>2, <1>3 DEF Call, Sweep, Resume, ResumeOwed, Labels
<1>4. ASSUME NEW f \in Executors, Loop(f)
      PROVE  pc[e] = "completeNow" \/ AllNodesTerminal(view[e].status)
  <2>1. CASE Decide(f)
    <3>1. pc' = [pc EXCEPT ![f] = Decision(view[f])]
      BY <2>1 DEF Decide, Goto
    <3>2. Decision(view[f]) = "completeNow" => AllNodesTerminal(view[f].status)
      BY DEF Decision
    <3> QED
      BY <3>1, <3>2 DEF TypeOK
  <2>2. CASE AllowWave(f) \/ RequestStepGate(f)
    BY <1>2, <2>2 DEF AllowWave, RequestStepGate, StartWave, Labels
  <2>3. CASE ~Decide(f) /\ ~AllowWave(f) /\ ~RequestStepGate(f)
    BY <1>2, <1>4, <2>3 DEF Loop, Enter, EnterNodes, RestoreGate, RestoreApprovalWait,
       RecoverInterruptedNodes, Govern, MarkRunRunning, ReadRun, ReadNodes, HaltRun,
       FailRun, CompleteRun, WaveDone, Labels
  <2> QED
    BY <2>1, <2>2, <2>3
<1>5. ASSUME NEW f \in Executors, NEW m \in Nodes, Attempt(f, m) \/ HeartbeatNode(f, m)
      PROVE  pc[e] = "completeNow"
  BY <1>1, <1>2, <1>5 DEF Attempt, SkipNode, ExhaustPendingNode, StartNode, Claim,
     SucceedNode, SkipDeniedRead, AttemptFails, WaitForApproval, Dispatch, HeartbeatNode,
     Labels
<1>6. ASSUME People PROVE UNCHANGED pc
  BY <1>6 DEF People, Approve, Reject, ApproveStepGate, CancelRun, EngageKillSwitch,
     HaltActiveRuns, ReleaseKillSwitch, SetMode
<1>7. ASSUME Environment PROVE pc[e] = "completeNow"
  BY <1>1, <1>2, <1>7 DEF Environment, DeadlinePasses, LeaseLapses, Crash, Labels
<1>8. UNCHANGED vars => UNCHANGED pc
  BY DEF vars
<1> QED
  BY <1>1, <1>3, <1>4, <1>5, <1>6, <1>7, <1>8 DEF Next

\* Only a replica that has decided so completes a run (completeRun).
LEMMA CompletedByLoop ==
    ASSUME [Next]_vars, runStatus # "completed", runStatus' = "completed"
    PROVE  \E e \in Executors : pc[e] = "completeNow"
<1>1. ASSUME NEW e \in Executors, Call(e) PROVE FALSE
  BY <1>1 DEF Call, Sweep, Resume, ResumeOwed
<1>2. ASSUME NEW e \in Executors, Loop(e) PROVE CompleteRun(e)
  BY <1>2 DEF Loop, Enter, EnterNodes, RestoreGate, RestoreApprovalWait,
     RecoverInterruptedNodes, Govern, MarkRunRunning, ReadRun, ReadNodes, Decide,
     HaltRun, HaltTx, FailRun, MoveRun, SetRun, AllowWave, RequestStepGate, WaveDone
<1>3. ASSUME NEW e \in Executors, NEW n \in Nodes, Attempt(e, n) \/ HeartbeatNode(e, n)
      PROVE  FALSE
  BY <1>3 DEF Attempt, SkipNode, ExhaustPendingNode, StartNode, Claim, SucceedNode,
     SkipDeniedRead, AttemptFails, WaitForApproval, SetRun, Dispatch, HeartbeatNode
<1>4. ASSUME People PROVE FALSE
  BY <1>4 DEF People, Approve, Reject, CancelRun, ApproveStepGate, SetRun,
     EngageKillSwitch, HaltActiveRuns, HaltTx, ReleaseKillSwitch, SetMode
<1>5. ASSUME Environment PROVE FALSE
  BY <1>5 DEF Environment, DeadlinePasses, LeaseLapses, Crash
<1> QED
  BY <1>1, <1>2, <1>3, <1>4, <1>5 DEF Next, vars, CompleteRun

\* What a replica saw ended has ended, and what has ended stays ended: so has the
\* mission that a replica is about to complete.
LEMMA EndKept ==
    ASSUME TypeOK, ViewHolds, EndIsReal, [Next]_vars PROVE EndIsReal'
<1>1. AllNodesTerminal(status) => AllNodesTerminal(status')
  BY ResultsKept DEF AllNodesTerminal
<1>2. ASSUME NEW e \in Executors, pc'[e] = "completeNow" PROVE AllNodesTerminal(status')
  <2>1. AllNodesTerminal(view[e].status) => AllNodesTerminal(status)
    BY DEF AllNodesTerminal, ViewHolds
  <2> QED
    BY <1>1, <1>2, <2>1, CompletionSteps DEF EndIsReal
<1>3. ASSUME runStatus' = "completed" PROVE AllNodesTerminal(status')
  BY <1>1, <1>3, CompletedByLoop DEF EndIsReal
<1> QED
  BY <1>2, <1>3 DEF EndIsReal

\* In a mission nobody cancelled no node is cancelled, and the mission was not
\* cancelled before.
LEMMA NotCancelled ==
    ASSUME TypeOK, CancelsTogether, [Next]_vars, runStatus' # "cancelled"
    PROVE  runStatus # "cancelled" /\ \A n \in Nodes : status[n] # "cancelled"
<1>1. runStatus # "cancelled"
  BY RunSteps DEF TerminalRun
<1> QED
  BY <1>1 DEF CancelsTogether

\* A replica reads the node rows in one statement, and above an ended node
\* everything has ended.
LEMMA ViewsClosedKept ==
    ASSUME TypeOK, NodesJustified, CancelsTogether, ViewsClosed, [Next]_vars,
           runStatus' # "cancelled"
    PROVE  ViewsClosed'
<1> SUFFICES ASSUME NEW e \in Executors, NEW n \in Nodes,
                    \A d \in Deps[n] : view'[e].status[d] \in TerminalNode,
                    NEW a \in Ancestors(n)
             PROVE  view'[e].status[a] \in TerminalNode
  BY DEF ViewsClosed, Ancestors
<1>1. CASE view'[e].status = view[e].status
  BY <1>1 DEF ViewsClosed
<1>2. CASE view'[e] = NoView
  <2>1. Deps[n] = {}
    BY <1>2, DepsAreNodes DEF NoView, TerminalNode
  <2>2. {} \in SUBSET Nodes
    OBVIOUS
  <2> QED
    BY <2>1, <2>2 DEF Ancestors
<1>3. CASE view'[e].status = status
  <2>1. Settled(n)
    BY <1>3 DEF Settled
  <2> QED
    BY <1>3, <2>1, NotCancelled, AncestorsSettled
<1> QED
  BY <1>1, <1>2, <1>3, ViewSteps DEF ViewStep

\* Whether the graph skips a node is settled once its dependencies have ended.
LEMMA VerdictKept ==
    ASSUME ConditionsUpstream, TypeOK, NodesJustified, CancelsTogether, [Next]_vars,
           runStatus' # "cancelled", NEW n \in Nodes, Settled(n)
    PROVE  SkippedByGraph(n, status') <=> SkippedByGraph(n, status)
<1>1. \A a \in Ancestors(n) : status'[a] = status[a]
  BY NotCancelled, AncestorsSettled, ResultsKept DEF Ancestors
<1>2. \A d \in Deps[n] : status'[d] = status[d]
  BY DepsAreNodes, ResultsKept DEF Settled
<1>3. Condition[n] # NoNode => status'[Condition[n]] = status[Condition[n]]
  BY <1>1 DEF ConditionsUpstream
<1> QED
  BY <1>2, <1>3 DEF SkippedByGraph

\* So a replica that finds a node ready plans for it what the rows say.
LEMMA VerdictSeen ==
    ASSUME ConditionsUpstream, TypeOK, ViewHolds, ViewsClosed,
           NEW e \in Executors, NEW n \in Ready(view[e].status)
    PROVE  SkippedByGraph(n, view[e].status) <=> SkippedByGraph(n, status)
<1>1. n \in Nodes /\ \A d \in Deps[n] : view[e].status[d] \in TerminalNode
  BY DEF Ready
<1>2. \A d \in Deps[n] : status[d] = view[e].status[d]
  BY <1>1, DepsAreNodes DEF ViewHolds
<1>3. \A a \in Ancestors(n) : status[a] = view[e].status[a]
  BY <1>1 DEF ViewsClosed, ViewHolds, Ancestors
<1>4. Condition[n] # NoNode => status[Condition[n]] = view[e].status[Condition[n]]
  BY <1>1, <1>3 DEF ConditionsUpstream
<1> QED
  BY <1>2, <1>4 DEF SkippedByGraph

\* What replicas plan agrees with the rows, whoever dispatched what meanwhile.
LEMMA PlansKept ==
    ASSUME ConditionsUpstream, TypeOK, Justified, ViewsClosed, PlansAgree, [Next]_vars,
           runStatus' # "cancelled"
    PROVE  PlansAgree'
<1> SUFFICES ASSUME NEW e \in Executors, NEW n \in Nodes
             PROVE  /\ work'[e][n].phase = "skip" => SkippedByGraph(n, status')
                    /\ work'[e][n].phase \in {"claim", "busy", "dispatched"}
                           => ~SkippedByGraph(n, status')
                    /\ work'[e][n].phase = "dispatched" => n \in dispatched'
  BY DEF PlansAgree
<1>1. Settled(n) => (SkippedByGraph(n, status') <=> SkippedByGraph(n, status))
  BY VerdictKept DEF Justified
<1>2. work[e][n].phase # "none" => Settled(n)
  BY DEF Justified, WorkJustified
<1>3. dispatched \subseteq dispatched'
  BY GateSteps DEF Dispatch
<1>4. CASE work'[e][n] = work[e][n]
  BY <1>1, <1>2, <1>3, <1>4 DEF PlansAgree
<1>5. CASE work'[e][n] = NoItem
  BY <1>5, NoItemFields
<1>6. CASE n \in Ready(view[e].status) /\ work'[e][n] = Item(n, view[e])
  <2>1. Settled(n)
    BY <1>6, PlansJustified DEF Justified
  <2>2. Item(n, view[e]).phase \in {"skip", "exhaust", "claim"}
    BY DEF Item
  <2>3. Item(n, view[e]).phase = "skip" <=> SkippedByGraph(n, view[e].status)
    BY DEF Item
  <2> QED
    BY <1>1, <1>6, <2>1, <2>2, <2>3, VerdictSeen DEF Justified
<1>7. CASE work'[e][n].phase = "exhaust"
  BY <1>7
<1>8. CASE work'[e][n].phase = "dispatched" /\ Dispatch(e, n)
  <2>1. work[e][n].phase = "busy" /\ n \in dispatched'
    BY <1>8 DEF Dispatch
  <2> QED
    BY <1>1, <1>2, <1>8, <2>1 DEF PlansAgree
<1>9. CASE Claims(e, n)
  <2>1. work[e][n].phase = "claim"
    BY <1>9 DEF Claims
  <2>2. work'[e][n].phase = "busy"
    <3>1. work' = [work EXCEPT ![e] = [work[e] EXCEPT ![n] =
                      [work[e][n] EXCEPT !.phase = "busy", !.token = consumedSteps + 1]]]
      BY <1>9 DEF Claims, Claim
    <3>2. work[e][n] \in Items
      BY DEF TypeOK
    <3>3. [work[e][n] EXCEPT !.phase = "busy", !.token = consumedSteps + 1].phase = "busy"
      BY <3>2 DEF Items
    <3> QED
      BY <3>1, <3>3 DEF TypeOK
  <2> QED
    BY <1>1, <1>2, <2>1, <2>2 DEF PlansAgree
<1> QED
  BY <1>4, <1>5, <1>6, <1>7, <1>8, <1>9, WorkSteps DEF WorkStep

\* How an action comes to be reported as succeeded or skipped.
LEMMA ActionResults ==
    ASSUME TypeOK, [Next]_vars, NEW n \in ActionNodes,
           status'[n] # status[n], status'[n] \in {"succeeded", "skipped"}
    PROVE  /\ dispatched' = dispatched
           /\ \E e \in Executors :
                 work[e][n].phase = IF status'[n] = "succeeded" THEN "dispatched" ELSE "skip"
<1>1. n \in Nodes /\ Kind[n] = "action"
  BY DEF ActionNodes
<1>2. NodeStep
  BY NodeSteps DEF NodeStep, vars
<1>3. ASSUME NEW e \in Executors, NEW m \in Nodes, Claims(e, m) PROVE FALSE
  BY <1>1, <1>3 DEF Claims, Claim, TypeOK
<1>4. CASE Reclaims
  BY <1>1, <1>4 DEF Reclaims, SettleNodes
<1>5. CASE Cancels
  BY <1>1, <1>5 DEF Cancels, SettleNodes
<1>6. ASSUME NEW m \in Nodes, Retires(m)
      PROVE  \E e \in Executors :
                work[e][n].phase = IF status'[n] = "succeeded" THEN "dispatched" ELSE "skip"
  <2>1. PICK new : SettleNodes({m}, new) /\ Earned(m, new)
    BY <1>6 DEF Retires
  <2>2. m = n /\ status'[n] = new
    BY <1>1, <2>1 DEF SettleNodes
  <2> QED
    BY <1>1, <2>1, <2>2 DEF Earned
<1>7. dispatched' = dispatched
  BY <1>1, GateSteps DEF Dispatch
<1> QED
  BY <1>2, <1>3, <1>4, <1>5, <1>6, <1>7 DEF NodeStep

\* Rows and evidence of the actions keep agreeing.
LEMMA EvidenceKept ==
    ASSUME ConditionsUpstream, TypeOK, Justified, PlansAgree, EvidenceAgrees, [Next]_vars,
           runStatus' # "cancelled"
    PROVE  EvidenceAgrees'
<1>1. dispatched \subseteq dispatched'
  BY GateSteps DEF Dispatch
<1>2. ASSUME NEW n \in ActionNodes, status'[n] = "succeeded" PROVE n \in dispatched'
  <2>1. n \in Nodes
    BY DEF ActionNodes
  <2>2. CASE status'[n] = status[n]
    BY <1>1, <1>2, <2>2 DEF EvidenceAgrees
  <2>3. CASE status'[n] # status[n]
    BY <1>1, <1>2, <2>1, <2>3, ActionResults DEF PlansAgree
  <2> QED
    BY <2>2, <2>3
<1>3. ASSUME NEW n \in dispatched'
      PROVE  status'[n] # "skipped" /\ ~SkippedByGraph(n, status')
  <2>1. n \in Nodes /\ n \in ActionNodes /\ Settled(n)
           /\ ~SkippedByGraph(n, status) /\ status[n] # "skipped"
    <3>1. CASE n \in dispatched
      BY <3>1, NodeFacts DEF TypeOK, EvidenceAgrees, Justified, NodesJustified
    <3>2. CASE n \notin dispatched
      <4>1. PICK e \in Executors, m \in Nodes : Dispatch(e, m)
        BY <1>3, <3>2, GateSteps
      <4>2. n \in Nodes /\ Dispatch(e, n)
        BY <1>3, <3>2, <4>1 DEF Dispatch
      <4> QED
        BY <4>2 DEF Dispatch, Owned, ActionNodes, PlansAgree, Justified, WorkJustified
    <3> QED
      BY <3>1, <3>2
  <2>2. ~SkippedByGraph(n, status')
    BY <2>1, VerdictKept DEF Justified
  <2>3. status'[n] # "skipped"
    BY <2>1, ActionResults DEF PlansAgree
  <2> QED
    BY <2>2, <2>3
<1> QED
  BY <1>2, <1>3 DEF EvidenceAgrees

\* A new mission is truthful.
LEMMA InitTruthful == Init => Truthful
<1> SUFFICES ASSUME Init PROVE Truthful
  OBVIOUS
<1>1. EndIsReal
  BY DEF Init, EndIsReal
<1>2. ViewsClosed
  <2> SUFFICES ASSUME NEW n \in Nodes,
                      \A d \in Deps[n] : NoView.status[d] \in TerminalNode,
                      NEW a \in Ancestors(n)
               PROVE  FALSE
    BY DEF Init, ViewsClosed
  <2>1. Deps[n] = {}
    BY DepsAreNodes DEF NoView, TerminalNode
  <2>2. {} \in SUBSET Nodes
    OBVIOUS
  <2> QED
    BY <2>1, <2>2 DEF Ancestors
<1>3. PlansAgree /\ EvidenceAgrees
  BY NoItemFields DEF Init, PlansAgree, EvidenceAgrees, ActionNodes
<1> QED
  BY <1>1, <1>2, <1>3 DEF Truthful

\* A completed mission has no unfinished node and reports as succeeded exactly the
\* actions for which dispatch evidence exists, whatever leases lapsed and whatever
\* stale views replicas worked from (completeRun, dispatch), in every graph whose
\* conditions are upstream.
THEOREM CompletionIsTruthful ==
    ASSUME ConditionsUpstream PROVE Spec => []CompletedIsTruthful
<1>1. ASSUME TypeOK, Justified, Truthful, [Next]_vars PROVE Truthful'
  <2>1. EndIsReal'
    BY <1>1, EndKept DEF Justified, Truthful
  <2>2. ASSUME runStatus' # "cancelled" PROVE ViewsClosed' /\ PlansAgree' /\ EvidenceAgrees'
    <3>1. ViewsClosed /\ PlansAgree /\ EvidenceAgrees
      BY <1>1, <2>2, NotCancelled DEF Truthful, Justified
    <3> QED
      BY <1>1, <2>2, <3>1, ViewsClosedKept, PlansKept, EvidenceKept DEF Justified
  <2> QED
    BY <2>1, <2>2 DEF Truthful
<1>2. ASSUME TypeOK, Justified, Truthful PROVE CompletedIsTruthful
  <2> SUFFICES ASSUME runStatus = "completed"
               PROVE  /\ AllNodesTerminal(status)
                      /\ {n \in ActionNodes : status[n] = "succeeded"} = dispatched
    BY DEF CompletedIsTruthful
  <2>1. AllNodesTerminal(status) /\ EvidenceAgrees
    BY <1>2 DEF Truthful, EndIsReal
  <2>2. ASSUME NEW n \in dispatched PROVE n \in ActionNodes /\ status[n] = "succeeded"
    <3>1. n \in ActionNodes /\ n \in Nodes
      BY <1>2, NodeFacts DEF TypeOK
    <3>2. status[n] # "cancelled"
      BY <1>2, <3>1 DEF Justified, CancelsTogether
    <3> QED
      BY <2>1, <3>1, <3>2 DEF AllNodesTerminal, TerminalNode, EvidenceAgrees
  <2> QED
    BY <2>1, <2>2 DEF EvidenceAgrees
<1> QED
  BY <1>1, <1>2, InitTruthful, TypeCorrect, JustifiedAlways, PTL DEF Spec
=============================================================================
