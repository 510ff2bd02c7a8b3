----------------------------- MODULE MissionGate ----------------------------
(***************************************************************************)
(* What a mission promises, whatever executes it: consequential actions    *)
(* happen only under a gate a person approved, each at most once, and only *)
(* while the mission is open; every gate is answered at most once; and a   *)
(* closed mission stays closed.                                            *)
(***************************************************************************)
CONSTANTS
    Gates,      \* the approval nodes of the mission
    Actions,    \* its side-effecting nodes
    Under       \* Under[n]: the gates action n depends on

VARIABLES
    open,       \* the mission has not ended
    answer,     \* answer[g]: what became of gate g
    done        \* the actions that took place

gateSpecVars == <<open, answer, done>>

GateInit ==
    /\ open = TRUE
    /\ answer = [g \in Gates |-> "none"]
    /\ done = {}

Ask(g) ==
    /\ open /\ answer[g] = "none"
    /\ answer' = [answer EXCEPT ![g] = "pending"]
    /\ UNCHANGED <<open, done>>

Grant(g) ==
    /\ open /\ answer[g] = "pending"
    /\ answer' = [answer EXCEPT ![g] = "approved"]
    /\ UNCHANGED <<open, done>>

\* A refusal ends the mission in the same step.
Refuse(g) ==
    /\ open /\ answer[g] = "pending"
    /\ answer' = [answer EXCEPT ![g] = "rejected"]
    /\ open' = FALSE
    /\ UNCHANGED done

Act(n) ==
    /\ open /\ n \notin done
    /\ \E g \in Under[n] : answer[g] = "approved"
    /\ done' = done \cup {n}
    /\ UNCHANGED <<open, answer>>

\* An end by itself, or by a cancellation that withdraws what is pending.
Close ==
    /\ open /\ open' = FALSE
    /\ \/ UNCHANGED answer
       \/ answer' = [g \in Gates |-> IF answer[g] = "pending" THEN "cancelled"
                                     ELSE answer[g]]
    /\ UNCHANGED done

GateNext ==
    \/ \E g \in Gates : Ask(g) \/ Grant(g) \/ Refuse(g)
    \/ \E n \in Actions : Act(n)
    \/ Close

GateSpec == GateInit /\ [][GateNext]_gateSpecVars
=============================================================================
