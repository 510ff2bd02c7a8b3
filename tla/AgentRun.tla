------------------------------ MODULE AgentRun ------------------------------
(***************************************************************************)
(* One durable Agent OS mission: the rows PostgreSQL keeps for it and the  *)
(* processes that change them.  Each API replica runs at most one          *)
(* execute() loop of the mission (agent-graph.engine.ts); operators        *)
(* approve, reject, cancel, proceed and pull the kill switch               *)
(* (agent-os.service.ts, agent-control.service.ts).  Every transaction of  *)
(* agent-run.repository.ts is one action: its conditional UPDATEs lock the *)
(* rows they match, so transactions on the same rows serialise.  Whatever  *)
(* a replica holds between two transactions is local and may be stale.     *)
(***************************************************************************)
EXTENDS AgentGraph

CONSTANTS
    Executors,        \* the API replicas
    MaxCrashes,       \* bound: replica crashes
    MaxKills,         \* bound: times the kill switch is engaged
    StartMode,        \* the tenant's autonomy mode when the run is created
    MaxModeChanges,   \* bound: changes of the autonomy mode
    MaxElapsed,       \* bound: mission deadlines that may pass
    MayRefuse         \* whether AI governance may refuse (opt-out, budget)

Modes == {"autonomous_guarded", "step_by_step"}

BoundsAssumption ==
    /\ IsFiniteSet(Executors)
    /\ {MaxCrashes, MaxKills, MaxModeChanges, MaxElapsed} \subseteq Nat
    /\ StartMode \in Modes
    /\ MayRefuse \in BOOLEAN
ASSUME BoundsAssumption

VARIABLES
    \* agent_run
    runStatus, consumedSteps,
    deadline,       \* how often timeout_at was extended: names its value
    \* agent_node_run, one row per node
    status, attempt, token, lease,
    \* agent_approval, agent_step_gate, agent_action_dispatch
    approval, gate, dispatched,
    \* tenant-wide controls: kill switch, its unfinished halt, autonomy mode
    killed, halting, mode,
    \* each replica: where execute() is, the rows it last read, and the
    \* attempts of the current wave
    pc, view, work,
    resumeOwed,     \* an approved decision or a proceed still has to resume
    elapsed,        \* how many of the deadlines 0..deadline have passed
    spent           \* the bounded environment events used so far

runVars == <<runStatus, consumedSteps, deadline>>
nodeVars == <<status, attempt, token, lease>>
gateVars == <<approval, gate, dispatched>>
controlVars == <<killed, halting, mode>>
execVars == <<pc, view, work>>
vars == <<runVars, nodeVars, gateVars, controlVars, execVars, resumeOwed,
          elapsed, spent>>

RunStatuses == {"pending", "running", "waiting_step", "waiting_approval",
                "halted", "completed", "failed", "cancelled"}
TerminalRun == {"completed", "failed", "cancelled"}
HaltSources == {"pending", "running", "waiting_step", "waiting_approval"}
OpenRun == HaltSources \cup {"halted"}

NoToken == 0
NoLease == -2
LapsedLease == -1
\* The rows as repository.get returned them.
Views == [deadline : Nat, status : [Nodes -> NodeStatuses],
          attempt : [Nodes -> Nat]]
NoView == [deadline |-> 0, status |-> [n \in Nodes |-> "pending"],
           attempt |-> [n \in Nodes |-> 0]]
\* An attempt of a node inside one replica: what it still has to do, the token
\* it owns, whether a failure exhausts the node, the deadline it was given and
\* the approved gate it acts under.
NoItem == [phase |-> "none", token |-> NoToken, last |-> FALSE,
           deadline |-> 0, gate |-> NoNode]

Labels == {"idle", "enter", "enterHalted", "enterLive", "restoreGate", "restore",
           "recover", "govern", "mark", "readRun", "readNodes", "gate",
           "haltNow", "failNow", "completeNow", "policy", "stepGate", "wave"}
Phases == {"none", "skip", "exhaust", "claim", "busy", "dispatched"}
Items == [phase : Phases, token : Nat, last : BOOLEAN, deadline : Nat,
          gate : ApprovalNodes \cup {NoNode}]

Init ==
    /\ runStatus = "pending" /\ consumedSteps = 0 /\ deadline = 0
    /\ status = [n \in Nodes |-> "pending"]
    /\ attempt = [n \in Nodes |-> 0]
    /\ token = [n \in Nodes |-> NoToken]
    /\ lease = [n \in Nodes |-> NoLease]
    /\ approval = [a \in ApprovalNodes |-> [state |-> "none", late |-> FALSE]]
    /\ gate = [w \in SUBSET Nodes |-> "none"]
    /\ dispatched = {}
    /\ killed = FALSE /\ halting = FALSE
    /\ mode = StartMode
    /\ pc = [e \in Executors |-> "idle"]
    /\ view = [e \in Executors |-> NoView]
    /\ work = [e \in Executors |-> [n \in Nodes |-> NoItem]]
    /\ resumeOwed = FALSE
    /\ elapsed = 0
    /\ spent = [crash |-> 0, kill |-> 0, mode |-> 0]

(***************************************************************************)
(* Database rules and shared pieces of transactions.                       *)
(***************************************************************************)
\* Mutant: the trigger lets a row keep its status, terminal or not.
LifecycleIgnoresTerminal(old, new) == old = new \/ old \notin TerminalRun

\* Trigger agent_run_lifecycle_guard: the transitions the database accepts.
LifecycleAllows(old, new) ==
    \/ old = new /\ old \notin TerminalRun
    \/ old = "pending" /\ new \in {"running", "failed", "cancelled", "halted"}
    \/ old = "running" /\ new \in {"waiting_step", "waiting_approval",
                                   "completed", "failed", "cancelled", "halted"}
    \/ old = "waiting_step" /\ new \in {"pending", "running", "failed",
                                        "cancelled", "halted"}
    \/ old = "waiting_approval" /\ new \in {"running", "failed", "cancelled",
                                            "halted"}
    \/ old = "halted" /\ new \in {"running", "waiting_approval", "failed",
                                  "cancelled"}

\* The update of agent_run.status alone.
SetRun(new) ==
    /\ runStatus' = new
    /\ UNCHANGED <<consumedSteps, deadline>>

\* A conditional update: from the source statuses only, else zero rows.
MoveRun(sources, new) ==
    \/ runStatus \in sources /\ SetRun(new)
    \/ runStatus \notin sources /\ UNCHANGED runVars

\* Mutant: the lease of the attempt is not cleared.
SettleKeepsToken(ns, new) ==
    /\ status' = [n \in Nodes |-> IF n \in ns THEN new ELSE status[n]]
    /\ UNCHANGED <<attempt, token, lease>>

\* Every update that takes nodes out of running also clears token and lease.
SettleNodes(ns, new) ==
    /\ status' = [n \in Nodes |-> IF n \in ns THEN new ELSE status[n]]
    /\ token' = [n \in Nodes |-> IF n \in ns THEN NoToken ELSE token[n]]
    /\ lease' = [n \in Nodes |-> IF n \in ns THEN NoLease ELSE lease[n]]
    /\ UNCHANGED attempt

LeaseLive(n) == lease[n] \in Nat /\ elapsed =< lease[n]

\* The compare-and-set of every result of an attempt.
Owned(e, n) == status[n] = "running" /\ token[n] = work[e][n].token

SettleOwned(e, n, new) ==
    \/ Owned(e, n) /\ SettleNodes({n}, new)
    \/ ~Owned(e, n) /\ UNCHANGED nodeVars

Goto(e, label) == pc' = [pc EXCEPT ![e] = label]
Finish(e, n) == work' = [work EXCEPT ![e][n] = NoItem]

(***************************************************************************)
(* Entering execute(): a new or recovered run, an operator's resume, or    *)
(* the resume a decision owes.  activeRuns refuses a second loop per       *)
(* replica, and such a call returns at once.                               *)
(***************************************************************************)
Sweep(e) ==
    /\ pc[e] = "idle" /\ runStatus \in {"pending", "running"}
    /\ Goto(e, "enter")
    /\ UNCHANGED <<runVars, nodeVars, gateVars, controlVars, view, work,
                   resumeOwed, elapsed, spent>>

\* setControlMode resumes the runs waiting at a step without asking the switch.
Resume(e) ==
    /\ pc[e] = "idle"
    /\ ~killed \/ (mode = "autonomous_guarded" /\ runStatus = "waiting_step")
    /\ Goto(e, "enter")
    /\ UNCHANGED <<runVars, nodeVars, gateVars, controlVars, view, work,
                   resumeOwed, elapsed, spent>>

ResumeOwed(e) ==
    /\ resumeOwed
    /\ resumeOwed' = FALSE
    /\ \/ pc[e] = "idle" /\ runStatus \notin TerminalRun /\ Goto(e, "enter")
       \/ pc[e] # "idle" /\ UNCHANGED pc
       \/ runStatus \in TerminalRun /\ UNCHANGED pc
    /\ UNCHANGED <<runVars, nodeVars, gateVars, controlVars, view, work,
                   elapsed, spent>>

\* repository.get reads the run row, then the node rows, in one READ COMMITTED
\* transaction: a commit may fall between the two reads.
Enter(e) ==
    /\ pc[e] = "enter"
    /\ \/ runStatus \in TerminalRun /\ Goto(e, "idle")
       \/ runStatus = "halted" /\ Goto(e, "enterHalted")
       \/ runStatus \in HaltSources /\ Goto(e, "enterLive")
    /\ UNCHANGED <<runVars, nodeVars, gateVars, controlVars, view, work,
                   resumeOwed, elapsed, spent>>

EnterNodes(e) ==
    /\ pc[e] \in {"enterHalted", "enterLive"}
    /\ LET waiting == \E n \in Nodes : status[n] = "waiting_approval"
       IN \/ waiting /\ pc[e] = "enterHalted" /\ Goto(e, "restoreGate")
          \/ waiting /\ pc[e] = "enterLive" /\ Goto(e, "idle")
          \/ ~waiting /\ Goto(e, "recover")
    /\ UNCHANGED <<runVars, nodeVars, gateVars, controlVars, view, work,
                   resumeOwed, elapsed, spent>>

RestoreGate(e) ==
    /\ pc[e] = "restoreGate"
    /\ Goto(e, IF killed THEN "idle" ELSE "restore")
    /\ UNCHANGED <<runVars, nodeVars, gateVars, controlVars, view, work,
                   resumeOwed, elapsed, spent>>

RestoreApprovalWait(e) ==
    /\ pc[e] = "restore"
    /\ MoveRun({"halted"}, "waiting_approval")
    /\ Goto(e, "idle")
    /\ UNCHANGED <<nodeVars, gateVars, controlVars, view, work, resumeOwed,
                   elapsed, spent>>

\* Mutant: the sweep reclaims nothing.
RecoverNothing(e) ==
    /\ pc[e] = "recover" /\ Goto(e, "govern")
    /\ UNCHANGED <<runVars, nodeVars, gateVars, controlVars, view, work,
                   resumeOwed, elapsed, spent>>

\* Reclaims the running nodes whose database lease has expired.
RecoverInterruptedNodes(e) ==
    /\ pc[e] = "recover"
    /\ SettleNodes({n \in Nodes : status[n] = "running" /\ ~LeaseLive(n)},
                   "pending")
    /\ Goto(e, "govern")
    /\ UNCHANGED <<runVars, gateVars, controlVars, view, work, resumeOwed,
                   elapsed, spent>>

Govern(e) ==
    /\ pc[e] = "govern"
    /\ \/ killed /\ Goto(e, "haltNow")
       \/ MayRefuse /\ Goto(e, "failNow")
       \/ ~killed /\ Goto(e, "mark")
    /\ UNCHANGED <<runVars, nodeVars, gateVars, controlVars, view, work,
                   resumeOwed, elapsed, spent>>

\* Mutant: the status filter is lost, and a terminal run comes back.
MarkAnyRunRunning(e) ==
    /\ pc[e] = "mark" /\ SetRun("running") /\ Goto(e, "readRun")
    /\ UNCHANGED <<nodeVars, gateVars, controlVars, view, work, resumeOwed,
                   elapsed, spent>>

MarkRunRunning(e) ==
    /\ pc[e] = "mark"
    /\ MoveRun({"pending", "waiting_step", "waiting_approval", "halted"}, "running")
    /\ Goto(e, "readRun")
    /\ UNCHANGED <<nodeVars, gateVars, controlVars, view, work, resumeOwed,
                   elapsed, spent>>

(***************************************************************************)
(* The loop of execute(): read, decide, act.                               *)
(***************************************************************************)
ReadRun(e) ==
    /\ pc[e] = "readRun"
    /\ \/ runStatus \in TerminalRun /\ Goto(e, "idle") /\ UNCHANGED view
       \/ /\ runStatus \notin TerminalRun /\ Goto(e, "readNodes")
          /\ view' = [view EXCEPT ![e].deadline = deadline]
    /\ UNCHANGED <<runVars, nodeVars, gateVars, controlVars, work, resumeOwed,
                   elapsed, spent>>

ReadNodes(e) ==
    /\ pc[e] = "readNodes"
    /\ view' = [view EXCEPT ![e] = [deadline |-> @.deadline,
                                    status |-> status, attempt |-> attempt]]
    /\ Goto(e, "gate")
    /\ UNCHANGED <<runVars, nodeVars, gateVars, controlVars, work, resumeOwed,
                   elapsed, spent>>

\* What the loop does next, once it has asked the runtime gate: the order of
\* the tests is the order of the code.
Decision(v) ==
    IF killed THEN "haltNow"
    ELSE IF v.deadline < elapsed THEN
        IF AnyRunning(v.status) THEN "idle" ELSE "failNow"
    ELSE IF \E n \in Nodes : v.status[n] = "failed" THEN "failNow"
    ELSE IF AllNodesTerminal(v.status) THEN "completeNow"
    ELSE IF Ready(v.status) # {} THEN "policy"
    ELSE IF \E n \in Nodes : v.status[n] \in {"waiting_approval", "running"} THEN "idle"
    ELSE "failNow"

Decide(e) ==
    /\ pc[e] = "gate"
    /\ LET next == Decision(view[e])
       IN /\ Goto(e, next)
          /\ view' = IF next = "policy" THEN view ELSE [view EXCEPT ![e] = NoView]
    /\ UNCHANGED <<runVars, nodeVars, gateVars, controlVars, work, resumeOwed,
                   elapsed, spent>>

\* haltRun: the run stops and its running attempts go back to pending.
HaltTx ==
    \/ /\ runStatus \in HaltSources
       /\ SetRun("halted")
       /\ SettleNodes({n \in Nodes : status[n] = "running"}, "pending")
    \/ runStatus \notin HaltSources /\ UNCHANGED <<runVars, nodeVars>>

HaltRun(e) ==
    /\ pc[e] = "haltNow"
    /\ HaltTx
    /\ Goto(e, "idle")
    /\ UNCHANGED <<gateVars, controlVars, view, work, resumeOwed, elapsed, spent>>

FailRun(e) ==
    /\ pc[e] = "failNow"
    /\ MoveRun(OpenRun, "failed")
    /\ Goto(e, "idle")
    /\ UNCHANGED <<nodeVars, gateVars, controlVars, view, work, resumeOwed,
                   elapsed, spent>>

CompleteRun(e) ==
    /\ pc[e] = "completeNow"
    /\ MoveRun({"running"}, "completed")
    /\ Goto(e, "idle")
    /\ UNCHANGED <<nodeVars, gateVars, controlVars, view, work, resumeOwed,
                   elapsed, spent>>

\* The work of a wave, planned from the rows as they were read.
Item(n, v) ==
    [phase |-> IF SkippedByGraph(n, v.status) THEN "skip"
               ELSE IF v.attempt[n] >= MaxAttempts[n] THEN "exhaust" ELSE "claim",
     token |-> NoToken,
     last |-> v.attempt[n] + 1 >= MaxAttempts[n],
     deadline |-> v.deadline,
     gate |-> IF ApprovedAncestors(n, v.status) = {} THEN NoNode
              ELSE CHOOSE a \in ApprovedAncestors(n, v.status) : TRUE]

StartWave(e) ==
    /\ Goto(e, "wave")
    /\ work' = [work EXCEPT ![e] = [n \in Nodes |->
                    IF n \in Ready(view[e].status) THEN Item(n, view[e]) ELSE NoItem]]
    /\ view' = [view EXCEPT ![e] = NoView]

\* allowWave: in autonomous mode the wave starts, else a step gate decides.
AllowWave(e) ==
    /\ pc[e] = "policy"
    /\ \/ mode = "autonomous_guarded" /\ StartWave(e)
       \/ /\ mode = "step_by_step" /\ Goto(e, "stepGate")
          /\ UNCHANGED <<view, work>>
    /\ UNCHANGED <<runVars, nodeVars, gateVars, controlVars, resumeOwed,
                   elapsed, spent>>

\* Mutant: a gate that exists is taken for a gate that is approved.
StepGateExists(e) ==
    LET w == Ready(view[e].status) IN
    /\ pc[e] = "stepGate"
    /\ \/ gate[w] # "none" /\ StartWave(e) /\ UNCHANGED <<runVars, gate>>
       \/ /\ gate[w] = "none" /\ LifecycleAllows(runStatus, "waiting_step")
          /\ gate' = [gate EXCEPT ![w] = "pending"]
          /\ SetRun("waiting_step") /\ Goto(e, "idle") /\ UNCHANGED work
          /\ view' = [view EXCEPT ![e] = NoView]
    /\ UNCHANGED <<nodeVars, approval, dispatched, controlVars, resumeOwed,
                   elapsed, spent>>

\* requestStepGate updates the run whatever its status: where the trigger
\* refuses, the transaction rolls back and execute() ends with the error.
RequestStepGate(e) ==
    LET w == Ready(view[e].status)
        leave == /\ Goto(e, "idle") /\ UNCHANGED work
                 /\ view' = [view EXCEPT ![e] = NoView]
    IN /\ pc[e] = "stepGate"
       /\ \/ gate[w] = "approved" /\ StartWave(e) /\ UNCHANGED <<runVars, gate>>
          \/ gate[w] \in {"pending", "inactive"} /\ leave
             /\ UNCHANGED <<runVars, gate>>
          \/ /\ gate[w] = "none" /\ LifecycleAllows(runStatus, "waiting_step")
             /\ gate' = [gate EXCEPT ![w] = "pending"]
             /\ SetRun("waiting_step") /\ leave
          \/ gate[w] = "none" /\ ~LifecycleAllows(runStatus, "waiting_step")
             /\ leave /\ UNCHANGED <<runVars, gate>>
       /\ UNCHANGED <<nodeVars, approval, dispatched, controlVars, resumeOwed,
                      elapsed, spent>>

(***************************************************************************)
(* The attempts of a wave, in parallel.                                    *)
(***************************************************************************)
\* skipNode without a token: only a pending node.
SkipNode(e, n) ==
    /\ work[e][n].phase = "skip"
    /\ \/ status[n] = "pending" /\ SettleNodes({n}, "skipped")
       \/ status[n] # "pending" /\ UNCHANGED nodeVars
    /\ Finish(e, n)
    /\ UNCHANGED <<runVars, gateVars, controlVars, pc, view, resumeOwed,
                   elapsed, spent>>

\* Mutant: an exhausted retry takes the node whatever became of it.
ExhaustAnyNode(e, n) ==
    /\ work[e][n].phase = "exhaust"
    /\ SettleNodes({n}, "failed") /\ Finish(e, n)
    /\ UNCHANGED <<runVars, gateVars, controlVars, pc, view, resumeOwed,
                   elapsed, spent>>

ExhaustPendingNode(e, n) ==
    /\ work[e][n].phase = "exhaust"
    /\ \/ status[n] = "pending" /\ SettleNodes({n}, "failed")
       \/ status[n] # "pending" /\ UNCHANGED nodeVars
    /\ Finish(e, n)
    /\ UNCHANGED <<runVars, gateVars, controlVars, pc, view, resumeOwed,
                   elapsed, spent>>

\* Mutant: a retry is free.
ClaimRetryFree(e, n) ==
    /\ consumedSteps < MaxSteps /\ LifecycleAllows(runStatus, runStatus)
    /\ consumedSteps' = consumedSteps + (IF attempt[n] = 0 THEN 1 ELSE 0)
    /\ status' = [status EXCEPT ![n] = "running"]
    /\ attempt' = [attempt EXCEPT ![n] = @ + 1]
    /\ token' = [token EXCEPT ![n] = consumedSteps + 1]
    /\ lease' = [lease EXCEPT ![n] = work[e][n].deadline]
    /\ work' = [work EXCEPT ![e][n].phase = "busy",
                            ![e][n].token = consumedSteps + 1]
    /\ UNCHANGED <<runStatus, deadline, pc>>

\* startNode claims the node and a step of the budget in one transaction.  It
\* does not look at the status of the run, but no terminal run row may change.
Claim(e, n) ==
    /\ consumedSteps < MaxSteps
    /\ LifecycleAllows(runStatus, runStatus)
    /\ consumedSteps' = consumedSteps + 1
    /\ status' = [status EXCEPT ![n] = "running"]
    /\ attempt' = [attempt EXCEPT ![n] = @ + 1]
    /\ token' = [token EXCEPT ![n] = consumedSteps + 1]
    /\ lease' = [lease EXCEPT ![n] = work[e][n].deadline]
    /\ work' = [work EXCEPT ![e][n].phase = "busy",
                            ![e][n].token = consumedSteps + 1]
    /\ UNCHANGED <<runStatus, deadline, pc>>

\* Mutant: the claim forgets that the node must still be pending.
StartAnyNode(e, n) ==
    /\ work[e][n].phase = "claim" /\ Claim(e, n)
    /\ UNCHANGED <<gateVars, controlVars, view, resumeOwed, elapsed, spent>>

StartNode(e, n) ==
    /\ work[e][n].phase = "claim"
    /\ \/ status[n] = "pending" /\ Claim(e, n)
       \/ \* AGENT_NODE_NOT_READY: another replica owns the attempt
          /\ status[n] # "pending"
          /\ Finish(e, n) /\ UNCHANGED <<runVars, nodeVars, pc>>
       \/ \* AGENT_STEP_BUDGET_EXHAUSTED
          /\ status[n] = "pending" /\ consumedSteps >= MaxSteps
          /\ work' = [work EXCEPT ![e][n].phase = "exhaust"]
          /\ UNCHANGED <<runVars, nodeVars, pc>>
       \/ \* the trigger refuses: execute() throws, the other attempts go on
          /\ status[n] = "pending" /\ consumedSteps < MaxSteps
          /\ ~LifecycleAllows(runStatus, runStatus)
          /\ Finish(e, n) /\ Goto(e, "idle") /\ UNCHANGED <<runVars, nodeVars>>
    /\ UNCHANGED <<gateVars, controlVars, view, resumeOwed, elapsed, spent>>

\* heartbeatNode renews the lease of the attempt that still owns the node.
HeartbeatNode(e, n) ==
    /\ work[e][n].phase \in {"busy", "dispatched"}
    /\ elapsed =< work[e][n].deadline
    /\ Owned(e, n) /\ ~LeaseLive(n)
    /\ lease' = [lease EXCEPT ![n] = work[e][n].deadline]
    /\ UNCHANGED <<runVars, status, attempt, token, gateVars, controlVars,
                   execVars, resumeOwed, elapsed, spent>>

SucceedNode(e, n) ==
    /\ \/ work[e][n].phase = "busy" /\ Kind[n] \in {"compute", "read"}
       \/ work[e][n].phase = "dispatched"
    /\ SettleOwned(e, n, "succeeded")
    /\ Finish(e, n)
    /\ UNCHANGED <<runVars, gateVars, controlVars, pc, view, resumeOwed,
                   elapsed, spent>>

\* A read the operator is not permitted to make is skipped, with the token.
SkipDeniedRead(e, n) ==
    /\ work[e][n].phase = "busy" /\ Kind[n] = "read"
    /\ SettleOwned(e, n, "skipped")
    /\ Finish(e, n)
    /\ UNCHANGED <<runVars, gateVars, controlVars, pc, view, resumeOwed,
                   elapsed, spent>>

\* retryNode or failNode: the attempt threw, or its deadline rejected it.
AttemptFails(e, n) ==
    /\ work[e][n].phase \in {"busy", "dispatched"}
    /\ SettleOwned(e, n, IF work[e][n].last THEN "failed" ELSE "pending")
    /\ Finish(e, n)
    /\ UNCHANGED <<runVars, gateVars, controlVars, pc, view, resumeOwed,
                   elapsed, spent>>

\* waitForApproval; where a condition fails it throws (AttemptFails).
WaitForApproval(e, n) ==
    /\ work[e][n].phase = "busy" /\ Kind[n] = "approval"
    /\ Owned(e, n) /\ runStatus = "running"
    /\ SetRun("waiting_approval")
    /\ SettleNodes({n}, "waiting_approval")
    /\ approval' = IF approval[n].state = "none"
                   THEN [approval EXCEPT ![n] = [state |-> "pending",
                                                 late |-> deadline < elapsed]]
                   ELSE approval
    /\ Finish(e, n)
    /\ UNCHANGED <<gate, dispatched, controlVars, pc, view, resumeOwed,
                   elapsed, spent>>

\* Mutant: the approved ancestor and its approval row are not looked for.
DispatchUnapproved(e, n) ==
    /\ work[e][n].phase = "busy" /\ Kind[n] = "action"
    /\ runStatus = "running" /\ elapsed =< deadline
    /\ Owned(e, n) /\ LeaseLive(n)
    /\ dispatched' = dispatched \cup {n}
    /\ work' = [work EXCEPT ![e][n].phase = "dispatched"]
    /\ UNCHANGED <<runVars, nodeVars, approval, gate, controlVars, pc, view,
                   resumeOwed, elapsed, spent>>

\* AgentActionService.dispatch, called by a side-effecting capability under
\* the approved ancestor its replica saw.  Every refusal throws.
Dispatch(e, n) ==
    LET a == work[e][n].gate IN
    /\ work[e][n].phase = "busy" /\ Kind[n] = "action" /\ a # NoNode
    /\ runStatus = "running" /\ elapsed =< deadline
    /\ Owned(e, n) /\ LeaseLive(n)
    /\ approval[a].state = "approved"
    /\ dispatched' = dispatched \cup {n}
    /\ work' = [work EXCEPT ![e][n].phase = "dispatched"]
    /\ UNCHANGED <<runVars, nodeVars, approval, gate, controlVars, pc, view,
                   resumeOwed, elapsed, spent>>

\* Promise.all has settled: checkpoint, and read again.
WaveDone(e) ==
    /\ pc[e] = "wave" /\ work[e] = [n \in Nodes |-> NoItem]
    /\ Goto(e, "readRun")
    /\ UNCHANGED <<runVars, nodeVars, gateVars, controlVars, view, work,
                   resumeOwed, elapsed, spent>>

(***************************************************************************)
(* People.                                                                 *)
(***************************************************************************)
\* Mutant: the pause of the review is not added to the deadline.
ApproveWithoutPause(a) ==
    /\ approval[a].state = "pending" /\ runStatus = "waiting_approval"
    /\ status[a] = "waiting_approval"
    /\ approval' = [approval EXCEPT ![a].state = "approved"]
    /\ SettleNodes({a}, "succeeded")
    /\ elapsed' = IF approval[a].late THEN deadline + 2 ELSE elapsed
    /\ resumeOwed' = TRUE
    /\ UNCHANGED <<runVars, gate, dispatched, controlVars, execVars, spent>>

\* decideApproval.  The service asks the kill switch before the transaction,
\* which does not look at it again.
Approve(a) ==
    /\ approval[a].state = "pending" /\ runStatus = "waiting_approval"
    /\ status[a] = "waiting_approval"
    /\ approval' = [approval EXCEPT ![a].state = "approved"]
    /\ SettleNodes({a}, "succeeded")
    /\ deadline' = deadline + 1   \* approvalPausedDeadline
    /\ elapsed' = IF approval[a].late THEN deadline + 2 ELSE elapsed
    /\ resumeOwed' = TRUE
    /\ UNCHANGED <<runStatus, consumedSteps, gate, dispatched, controlVars,
                   execVars, spent>>

\* Mutant: a rejection answers the gate but leaves the run open.
RejectOnlyNode(a) ==
    /\ approval[a].state = "pending" /\ runStatus = "waiting_approval"
    /\ status[a] = "waiting_approval"
    /\ approval' = [approval EXCEPT ![a].state = "rejected"]
    /\ SettleNodes({a}, "cancelled")
    /\ UNCHANGED <<runVars, gate, dispatched, controlVars, execVars,
                   resumeOwed, elapsed, spent>>

Reject(a) ==
    /\ approval[a].state = "pending" /\ runStatus = "waiting_approval"
    /\ status[a] = "waiting_approval"
    /\ approval' = [approval EXCEPT ![a].state = "rejected"]
    /\ SettleNodes({a}, "cancelled")
    /\ SetRun("cancelled")
    /\ UNCHANGED <<gate, dispatched, controlVars, execVars, resumeOwed,
                   elapsed, spent>>

\* approveStepGate: gate and run move together or not at all.
ApproveStepGate(w) ==
    /\ gate[w] = "pending" /\ runStatus = "waiting_step"
    /\ gate' = [gate EXCEPT ![w] = "approved"]
    /\ SetRun("pending")
    /\ resumeOwed' = TRUE
    /\ UNCHANGED <<nodeVars, approval, dispatched, controlVars, execVars,
                   elapsed, spent>>

\* Mutant: the Proceed gates stay open.
CancelKeepsGates ==
    /\ runStatus \in OpenRun
    /\ SetRun("cancelled")
    /\ SettleNodes({n \in Nodes : status[n] \in
                       {"pending", "running", "waiting_approval"}}, "cancelled")
    /\ approval' = [a \in ApprovalNodes |->
                       IF approval[a].state = "pending"
                       THEN [approval[a] EXCEPT !.state = "cancelled"]
                       ELSE approval[a]]
    /\ UNCHANGED <<gate, dispatched, controlVars, execVars, resumeOwed,
                   elapsed, spent>>

\* Mutant: decided approvals are withdrawn too.
CancelDecided ==
    /\ runStatus \in OpenRun
    /\ SetRun("cancelled")
    /\ SettleNodes({n \in Nodes : status[n] \in
                       {"pending", "running", "waiting_approval"}}, "cancelled")
    /\ gate' = [w \in SUBSET Nodes |->
                   IF gate[w] = "pending" THEN "inactive" ELSE gate[w]]
    /\ approval' = [a \in ApprovalNodes |->
                       IF approval[a].state # "none"
                       THEN [approval[a] EXCEPT !.state = "cancelled"]
                       ELSE approval[a]]
    /\ UNCHANGED <<dispatched, controlVars, execVars, resumeOwed, elapsed, spent>>

\* cancelRun retires everything the mission still had open.
CancelRun ==
    /\ runStatus \in OpenRun
    /\ SetRun("cancelled")
    /\ SettleNodes({n \in Nodes : status[n] \in
                       {"pending", "running", "waiting_approval"}}, "cancelled")
    /\ gate' = [w \in SUBSET Nodes |->
                   IF gate[w] = "pending" THEN "inactive" ELSE gate[w]]
    /\ approval' = [a \in ApprovalNodes |->
                       IF approval[a].state = "pending"
                       THEN [approval[a] EXCEPT !.state = "cancelled"]
                       ELSE approval[a]]
    /\ UNCHANGED <<dispatched, controlVars, execVars, resumeOwed, elapsed, spent>>

\* engageKillSwitch: one transaction sets the switch, later ones halt the runs.
EngageKillSwitch ==
    /\ spent.kill < MaxKills /\ ~killed
    /\ killed' = TRUE /\ halting' = TRUE
    /\ spent' = [spent EXCEPT !.kill = @ + 1]
    /\ UNCHANGED <<runVars, nodeVars, gateVars, mode, execVars, resumeOwed,
                   elapsed>>

HaltActiveRuns ==
    /\ halting /\ halting' = FALSE
    /\ HaltTx
    /\ UNCHANGED <<gateVars, killed, mode, execVars, resumeOwed, elapsed, spent>>

ReleaseKillSwitch ==
    /\ killed /\ killed' = FALSE
    /\ UNCHANGED <<runVars, nodeVars, gateVars, halting, mode, execVars,
                   resumeOwed, elapsed, spent>>

SetMode ==
    /\ spent.mode < MaxModeChanges
    /\ mode' \in Modes \ {mode}
    /\ spent' = [spent EXCEPT !.mode = @ + 1]
    /\ UNCHANGED <<runVars, nodeVars, gateVars, killed, halting, execVars,
                   resumeOwed, elapsed>>

(***************************************************************************)
(* Time and failures.                                                      *)
(***************************************************************************)
DeadlinePasses ==
    /\ elapsed < MaxElapsed /\ elapsed =< deadline
    /\ elapsed' = elapsed + 1
    /\ UNCHANGED <<runVars, nodeVars, gateVars, controlVars, execVars,
                   resumeOwed, spent>>

\* No heartbeat reached the database for the length of the lease: the replica
\* crashed, was paused, or lost its connection while its attempt went on.
LeaseLapses(n) ==
    /\ status[n] = "running" /\ LeaseLive(n)
    /\ lease' = [lease EXCEPT ![n] = LapsedLease]
    /\ UNCHANGED <<runVars, status, attempt, token, gateVars, controlVars,
                   execVars, resumeOwed, elapsed, spent>>

Crash(e) ==
    /\ spent.crash < MaxCrashes
    /\ pc[e] # "idle" \/ resumeOwed \/ work[e] # [n \in Nodes |-> NoItem]
    /\ spent' = [spent EXCEPT !.crash = @ + 1]
    /\ Goto(e, "idle")
    /\ view' = [view EXCEPT ![e] = NoView]
    /\ work' = [work EXCEPT ![e] = [n \in Nodes |-> NoItem]]
    /\ resumeOwed' \in {resumeOwed, FALSE}
    /\ UNCHANGED <<runVars, nodeVars, gateVars, controlVars, elapsed>>

Call(e) == Sweep(e) \/ Resume(e) \/ ResumeOwed(e)

Loop(e) ==
    \/ Enter(e) \/ EnterNodes(e) \/ RestoreGate(e) \/ RestoreApprovalWait(e)
    \/ RecoverInterruptedNodes(e) \/ Govern(e) \/ MarkRunRunning(e)
    \/ ReadRun(e) \/ ReadNodes(e) \/ Decide(e) \/ HaltRun(e) \/ FailRun(e)
    \/ CompleteRun(e) \/ AllowWave(e) \/ RequestStepGate(e) \/ WaveDone(e)

Attempt(e, n) ==
    \/ SkipNode(e, n) \/ ExhaustPendingNode(e, n) \/ StartNode(e, n)
    \/ SucceedNode(e, n) \/ SkipDeniedRead(e, n) \/ AttemptFails(e, n)
    \/ WaitForApproval(e, n) \/ Dispatch(e, n)

People ==
    \/ \E a \in ApprovalNodes : Approve(a) \/ Reject(a)
    \/ \E w \in SUBSET Nodes : ApproveStepGate(w)
    \/ CancelRun \/ EngageKillSwitch \/ HaltActiveRuns \/ ReleaseKillSwitch
    \/ SetMode

Environment ==
    \/ DeadlinePasses
    \/ \E n \in Nodes : LeaseLapses(n)
    \/ \E e \in Executors : Crash(e)

Next ==
    \/ \E e \in Executors : Call(e) \/ Loop(e)
    \/ \E e \in Executors, n \in Nodes : Attempt(e, n) \/ HeartbeatNode(e, n)
    \/ People
    \/ Environment

Spec == Init /\ [][Next]_vars

\* No replica renews the lease of the node any more.
Abandoned(n) == \A e \in Executors : work[e][n].token # token[n]

\* What runs on its own: a replica's loop and attempts, and its recovery sweep
\* timer.  People, deadlines, leases and crashes owe nothing.
Fairness ==
    /\ \A e \in Executors : WF_vars(Loop(e)) /\ WF_vars(Sweep(e))
    /\ \A e \in Executors, n \in Nodes : WF_vars(Attempt(e, n))
    /\ \A n \in Nodes : WF_vars(Abandoned(n) /\ LeaseLapses(n))
FairSpec == Spec /\ Fairness

(***************************************************************************)
(* Properties.                                                             *)
(***************************************************************************)
\* Type invariant of every variable, for the rows and the replicas.
TypeOK ==
    /\ runStatus \in RunStatuses
    /\ consumedSteps \in Nat /\ deadline \in Nat
    /\ status \in [Nodes -> NodeStatuses]
    /\ attempt \in [Nodes -> Nat]
    /\ token \in [Nodes -> Nat]
    /\ lease \in [Nodes -> Int]
    /\ approval \in [ApprovalNodes ->
          [state : {"none", "pending", "approved", "rejected", "cancelled"},
           late : BOOLEAN]]
    /\ gate \in [SUBSET Nodes -> {"none", "pending", "approved", "inactive"}]
    /\ dispatched \subseteq ActionNodes
    /\ killed \in BOOLEAN /\ halting \in BOOLEAN
    /\ mode \in Modes
    /\ pc \in [Executors -> Labels]
    /\ view \in [Executors -> Views]
    /\ work \in [Executors -> [Nodes -> Items]]
    /\ resumeOwed \in BOOLEAN
    /\ elapsed \in 0..(deadline + 1)
    /\ spent \in [crash : Nat, kill : Nat, mode : Nat]

\* The attempts that the nodes made: the first attempt of n, its second, ...
AttemptsMade == UNION {{n} \X (1..attempt[n]) : n \in Nodes}

\* The budget of the run counts exactly the attempts its nodes made, and is
\* never overdrawn, however many replicas claim at once (startNode).
StepBudget ==
    /\ consumedSteps =< MaxSteps
    /\ consumedSteps = Cardinality(AttemptsMade)

\* A node only starts, and only ends, when everything it depends on has ended,
\* and what it depends on has not been reopened since (readyAgentNodes).
DependencyOrder ==
    \A n \in Nodes :
        attempt[n] > 0 \/ status[n] \in {"skipped", "failed", "succeeded"}
            => \A d \in Deps[n] : status[d] \in TerminalNode

\* A node that is running has exactly one owner: a live token, held by at most
\* one replica, and a node that is not running has none (the execution lease).
OneOwner ==
    /\ \A n \in Nodes : (status[n] = "running") <=> (token[n] # NoToken)
    /\ \A n \in Nodes : (status[n] = "running") <=> (lease[n] # NoLease)
    /\ \A e, f \in Executors, n \in Nodes :
          work[e][n].token # NoToken /\ work[e][n].token = work[f][n].token
              => e = f

\* An action was dispatched only if a person approved a gate it depends on,
\* and that gate is on record as succeeded ("Approval-bound actions cannot
\* execute without an approved ancestor").
ActionsFollowApproval ==
    \A n \in dispatched : \E a \in ApprovalNodes \cap Ancestors(n) :
        approval[a].state = "approved" /\ status[a] = "succeeded"

\* A rejected mission is cancelled for good and none of its actions behind the
\* rejected gate was ever dispatched (decideApproval).
RejectedNeverActs ==
    \A a \in ApprovalNodes : approval[a].state = "rejected" =>
        /\ runStatus = "cancelled"
        /\ \A n \in dispatched : a \notin Ancestors(n)

\* A completed mission has no unfinished node and reports as succeeded exactly
\* the actions for which dispatch evidence exists (completeRun, dispatch).
CompletedIsTruthful ==
    runStatus = "completed" =>
        /\ AllNodesTerminal(status)
        /\ {n \in ActionNodes : status[n] = "succeeded"} = dispatched

\* Cancelling leaves nothing for a person or a replica to act on: no pending
\* approval, no node that could still be claimed or answered (cancelRun).
CancelledIsQuiet ==
    runStatus = "cancelled" /\ (\A a \in ApprovalNodes : approval[a].state # "rejected") =>
        /\ \A a \in ApprovalNodes : approval[a].state # "pending"
        /\ \A n \in Nodes : status[n] \notin {"pending", "running", "waiting_approval"}
        /\ \A w \in SUBSET Nodes : gate[w] # "pending"

\* Where the tenant asks to approve every step, no node is ever attempted that
\* a person has not let proceed, whoever else executes the mission meanwhile.
NothingStartsUnasked ==
    StartMode = "step_by_step" /\ spent.mode = 0 =>
        \A n \in Nodes : attempt[n] > 0 =>
            \E w \in SUBSET Nodes : n \in w /\ gate[w] = "approved"

\* What a node ended with is never overwritten: not by a late replica whose
\* lease was reclaimed, not by a halt, a cancel or a second attempt.
ResultsFinal ==
    [][\A n \in Nodes : status[n] \in TerminalNode \cup {"failed"}
            => status'[n] = status[n]]_vars

\* "multi-replica terminal transitions never overwrite another executor's
\* terminal state": a terminal run row never changes again.
TerminalRunFinal ==
    [][(runStatus \in TerminalRun) => runVars' = runVars]_vars

\* A human decision is final: whatever races with it, an approved, rejected or
\* withdrawn approval keeps its answer (decideApproval, cancelRun).
DecisionsFinal ==
    [][\A a \in ApprovalNodes :
          approval[a].state \in {"approved", "rejected", "cancelled"}
              => approval'[a] = approval[a]]_vars

\* The recovery sweep is a liveness loop: with one replica, whatever crashes,
\* a pending or running mission reaches a person's decision or an end.
NeverStuckRunning ==
    runStatus \in {"pending", "running"} ~> runStatus \notin {"pending", "running"}

\* The mission keeps the promise of MissionGate: every step of the rows and the
\* replicas is one of its steps or changes nothing a person can see of it.
Promise == INSTANCE MissionGate WITH
    Gates <- ApprovalNodes, Actions <- ActionNodes,
    Under <- [n \in ActionNodes |-> ApprovalNodes \cap Ancestors(n)],
    open <- runStatus \notin TerminalRun,
    answer <- [a \in ApprovalNodes |-> approval[a].state],
    done <- dispatched
KeepsPromise == Promise!GateSpec

(***************************************************************************)
(* What makes the safety properties inductive: what a replica holds        *)
(* between two transactions is stale, but not wrong where it matters.      *)
(***************************************************************************)
Settled(n) == \A d \in Deps[n] : status[d] \in TerminalNode

\* The end of a node that a replica has read is still its end.
ViewHolds ==
    \A e \in Executors, n \in Nodes :
        view[e].status[n] \in TerminalNode => status[n] = view[e].status[n]

\* Tokens are drawn from the step budget, so a new one is unlike any other.
TokensDrawn ==
    /\ \A n \in Nodes : token[n] =< consumedSteps
    /\ \A e \in Executors, n \in Nodes : work[e][n].token =< consumedSteps

\* A planned or running attempt rests on dependencies that have ended and on a
\* gate that a person approved.
WorkJustified ==
    \A e \in Executors, n \in Nodes :
        /\ work[e][n].phase # "none" => Settled(n)
        /\ work[e][n].gate # NoNode => work[e][n].gate \in ApprovedAncestors(n, status)

\* So does every node that left pending by its own execution.
NodesJustified ==
    \A n \in Nodes :
        attempt[n] > 0 \/ n \in dispatched
            \/ status[n] \notin {"pending", "cancelled"} => Settled(n)

\* Only the cancellation of the run cancels nodes.
CancelsTogether ==
    (\E n \in Nodes : status[n] = "cancelled") => runStatus = "cancelled"

\* Invariant of every run: each property above follows from it and TypeOK.
Justified ==
    /\ ViewHolds /\ TokensDrawn /\ OneOwner /\ WorkJustified /\ NodesJustified
    /\ CancelsTogether /\ ActionsFollowApproval /\ RejectedNeverActs

(***************************************************************************)
(* Statements of the documentation the code does not keep.                 *)
(***************************************************************************)
\* types.ts: "Total attempts, including the first."
AttemptsBounded == \A n \in Nodes : attempt[n] =< MaxAttempts[n]

\* 0067: "Closed missions cannot retain actionable Proceed gates."
ClosedHasNoGates ==
    runStatus \in TerminalRun => \A w \in SUBSET Nodes : gate[w] # "pending"

\* control.tsx: "A durable Proceed gate before every wave", "Safe across restarts
\* and refreshes".  A gate that waits for a person, with no replica on the
\* mission, can be proceeded, or a resume or a halt still has the last word.
ProceedSurvives ==
    /\ spent.mode = 0 /\ ~resumeOwed
    /\ \E w \in SUBSET Nodes : gate[w] = "pending"
    /\ \A e \in Executors : pc[e] = "idle"
    => runStatus \in {"waiting_step", "halted"} \cup TerminalRun

\* 03-controlled-autonomy.md: "approval resumes the durable graph".  A mission
\* that waits for approval, with no replica on it and no resume on its way,
\* waits for a decision that can still be made.
ApprovalResumes ==
    /\ runStatus = "waiting_approval" /\ ~resumeOwed
    /\ \A e \in Executors : pc[e] = "idle"
    => \E n \in Nodes : status[n] = "waiting_approval"

\* agent-recovery.service.ts: "Multiple API replicas may sweep safely".  While a
\* node waits for a person, the run is where decideApproval accepts an answer,
\* or where a resume can restore it.
ApprovalDecidable ==
    (\E n \in Nodes : status[n] = "waiting_approval")
        => runStatus \in {"waiting_approval", "halted"} \cup TerminalRun

\* 04-managed-services.md: "The kill switch prevents new automated actions".
\* From the return of engageKillSwitch to the release, nothing is dispatched.
KillPreventsActions ==
    [][killed /\ ~halting => dispatched' = dispatched]_vars
=============================================================================
