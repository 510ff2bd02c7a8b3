----------------------------- MODULE AgentGraph -----------------------------
(***************************************************************************)
(* The immutable graph an Agent OS mission executes, and the pure          *)
(* functions the engine decides with (packages/platform/src/agent-os/      *)
(* graph.ts and the helpers at the end of agent-graph.engine.ts).  A graph *)
(* is snapshotted when the run is created and never changes.               *)
(***************************************************************************)
EXTENDS Integers, FiniteSets, Functions

CONSTANTS
    Nodes,         \* the node ids of the graph
    Deps,          \* Deps[n]: the nodes n dependsOn
    Kind,          \* Kind[n]: see Kinds
    MaxAttempts,   \* MaxAttempts[n]: total attempts, including the first
    MaxSteps,      \* the step budget persisted on the run
    Condition,     \* Condition[n]: the node whose output decides whether n
                   \* runs, or NoNode
    Meets,         \* Meets[n]: the statuses with which that node's output has
                   \* the value the condition asks for
    NoNode         \* stands for an absent node id

\* agent, verification, transform and branch nodes only compute an output;
\* a capability is a read or has a side effect; approval waits for a person.
Kinds == {"compute", "read", "action", "approval"}

NodeStatuses == {"pending", "running", "waiting_approval", "succeeded",
                 "failed", "skipped", "cancelled"}

\* TERMINAL_NODE_STATUSES: a failed node is not terminal, it stops the run.
TerminalNode == {"succeeded", "skipped", "cancelled"}

ApprovalNodes == {n \in Nodes : Kind[n] = "approval"}
ActionNodes == {n \in Nodes : Kind[n] = "action"}

\* The transitive dependencies of n: the least set that holds Deps[n] and the
\* dependencies of its own members.
Ancestors(n) ==
    {m \in Nodes : \A S \in SUBSET Nodes :
        (Deps[n] \subseteq S /\ \A k \in S : Deps[k] \subseteq S) => m \in S}

\* The conditions validateAgentGraph imposes before a graph is registered, and
\* again before a run of it executes.
GraphAssumption ==
    /\ IsFiniteSet(Nodes) /\ Nodes # {}
    /\ NoNode \notin Nodes
    /\ Deps \in [Nodes -> SUBSET Nodes]
    /\ \A n \in Nodes : n \notin Ancestors(n)
    /\ Kind \in [Nodes -> Kinds]
    /\ MaxAttempts \in [Nodes -> 1..5]
    /\ MaxSteps \in Nat
    /\ SumFunction(MaxAttempts) =< MaxSteps
    /\ Condition \in [Nodes -> Nodes \cup {NoNode}]
    /\ Meets \in [Nodes -> SUBSET NodeStatuses]
ASSUME GraphAssumption

\* Mutant: a running dependency already counts as done.
ReadyTooEarly(st) ==
    {n \in Nodes : st[n] = "pending" /\ \A d \in Deps[n] : st[d] # "pending"}

\* readyAgentNodes: the nodes of the next parallel wave.
Ready(st) ==
    {n \in Nodes : st[n] = "pending" /\ \A d \in Deps[n] : st[d] \in TerminalNode}

\* Mutant: the attempt of another replica is not waited for.
NoNodePending(st) == \A n \in Nodes : st[n] \in TerminalNode \cup {"running"}

AllNodesTerminal(st) == \A n \in Nodes : st[n] \in TerminalNode

\* anotherExecutorIsRunning, and so shouldDeferRunTimeout.
AnyRunning(st) == \E n \in Nodes : st[n] = "running"

\* approvedApprovalAncestor: an approval node succeeds only by an approving
\* decision, so its output carries decision.approved = true iff it succeeded.
ApprovedAncestors(n, st) ==
    {a \in Ancestors(n) : Kind[a] = "approval" /\ st[a] = "succeeded"}

\* The two reasons the engine retires a ready node without running it.  A node
\* ends once, so what its output will say when it does is the graph's to choose.
SkippedByGraph(n, st) ==
    \/ Condition[n] # NoNode /\ st[Condition[n]] \notin Meets[n]
    \/ Deps[n] # {} /\ \A d \in Deps[n] : st[d] = "skipped"
=============================================================================
