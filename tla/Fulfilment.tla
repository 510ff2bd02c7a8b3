----------------------------- MODULE Fulfilment -----------------------------
(***************************************************************************)
(* The fulfilment mission of one customer order.  A call of advance()      *)
(* reads where the mission stands in one transaction and runs the next     *)
(* step of the arc in others; between them other calls, people and the     *)
(* world change the mission.  Steps are rows numbered by how many there    *)
(* were; documents are raised in PURCHASE and PRODUCTION under idempotency *)
(* keys.                                                                   *)
(***************************************************************************)
EXTENDS Integers, FiniteSets, Sequences, SequencesExt, FiniteSetsExt

CONSTANTS
    Calls,          \* the calls of advance() or retry() that may be in flight
    Observations,   \* the keys of the investigating steps, in their order
    Strategies,     \* what the planner can choose from
    Vendors,
    Sources,        \* the vendors a strategy buys from
    AskAt,          \* the tiers at which a strategy is outside the authority
    MakeLines,      \* the lines of the order that stock does not cover
    Delayed,        \* the vendor whose delay the world may report
    StartTier,
    MaxPlans, MaxRetries, MaxCrashes,
    MaxChanges,     \* how often people change the terms, the tier or the faults
    MaxClicks       \* how often a call may start while another runs

Tiers == {"A2", "A3", "A4"}

Commitments == <<"strategy", "critique", "authorize", "reserve",
                 "procure", "workorder", "watch", "close">>
Arc == Observations \o Commitments

\* An A2 mission asks before it commits anything; new terms rewind to sourcing.
MissionAssumption ==
    /\ Sources \in [Strategies -> SUBSET Vendors]
    /\ AskAt \in [Strategies -> SUBSET Tiers]
    /\ \A s \in Strategies : "A2" \in AskAt[s]
    /\ Observations \in Seq(STRING) /\ Contains(Observations, "sourcing")
    /\ IsInjective(Observations)
    /\ Range(Observations) \cap Range(Commitments) = {}
    /\ StartTier \in Tiers /\ Delayed \in Vendors
    /\ {MaxPlans, MaxRetries, MaxCrashes, MaxChanges, MaxClicks} \subseteq Nat
ASSUME MissionAssumption

VARIABLES
    status, tier,   \* of the mission
    row,            \* fulfilment_step: what is recorded at each seq
    plan,           \* fulfilment_plan_version, oldest first
    approval,       \* fulfilment_approval, those withdrawn included
    action,         \* fulfilment_action: the statuses its rows have, by kind and plan version
    key,            \* the idempotency keys of documents
    raised,         \* how often a document has really been created
    call,           \* where each call stands
    fault,          \* the simulated fault: none, armed, fired
    disrupted,      \* whether the delay has been recorded
    retried, changes, crashes, clicks

missionVars == <<status, tier, row, plan, approval, action>>
spent == <<retried, changes, crashes>>
worldVars == <<fault, disrupted, spent>>
vars == <<missionVars, key, raised, call, worldVars, clicks>>

\* The steps from k on, which is what each rewinding deletes.
From(k) == LET first == CHOOSE i \in DOMAIN Arc : Arc[i] = k
           IN {Arc[i] : i \in first .. Len(Arc)}
Done == {row[i].key : i \in DOMAIN row}
NextKey == Arc[CHOOSE i \in DOMAIN Arc :
                  Arc[i] \notin Done /\ \A j \in 1 .. i - 1 : Arc[j] \in Done]
Closed == {"completed", "failed", "cancelled"}

\* Mutant: advance returns early from a completed mission only.
OpenUnlessCompleted == {"planning", "executing", "replanning", "awaiting_approval",
                        "waiting", "failed", "cancelled"}

\* Where advance goes on.
Open == {"planning", "executing", "replanning"}

\* The documents a step must raise: one per vendor, one per uncovered line.
DocKinds == {"procure", "workorder"}
Parties(kind, v) ==
    IF kind = "procure" THEN Sources[plan[v].strategy] ELSE MakeLines
Docs == {d \in DocKinds \X (1 .. MaxPlans) \X (Vendors \cup MakeLines) :
            d[3] \in IF d[1] = "procure" THEN Vendors ELSE MakeLines}
ActionKinds == {"reserve"} \cup DocKinds
Version == Len(plan)
Refused == {plan[v].strategy : v \in {u \in 1 .. Version : plan[u].superseded = "refused"}}
Pending(a) == approval[a].decision = "pending"
HasActed == \E k \in ActionKinds, v \in 1 .. MaxPlans : "verified" \in action[k][v]

NoCall == [pc |-> "idle", key |-> "none", seq |-> 0, version |-> 0,
           choice |-> "none", asks |-> FALSE, todo |-> {}, failed |-> FALSE,
           armed |-> FALSE]

Init ==
    /\ status = "planning" /\ tier = StartTier
    /\ row = <<>> /\ plan = <<>> /\ approval = <<>>
    /\ action = [k \in ActionKinds |-> [v \in 1 .. MaxPlans |-> {}]]
    /\ key = [d \in Docs |-> "free"] /\ raised = [d \in Docs |-> 0]
    /\ call = [c \in Calls |-> NoCall]
    /\ fault = "none" /\ disrupted = FALSE
    /\ retried = 0
    /\ changes = 0 /\ crashes = 0 /\ clicks = 0

Goto(c, pc) == call' = [call EXCEPT ![c].pc = pc]
Leave(c) == call' = [call EXCEPT ![c] = NoCall]

\* writeStep; a seq that is taken fails the whole transaction (see Clash).
WriteStep(c, st) ==
    /\ call[c].seq \notin DOMAIN row
    /\ row' = [i \in DOMAIN row \cup {call[c].seq} |->
                  IF i = call[c].seq THEN [key |-> call[c].key, status |-> st]
                  ELSE row[i]]
DeleteSteps(gone) ==
    row' = [i \in {j \in DOMAIN row : ~gone[j]} |-> row[i]]
Rewind(k) == DeleteSteps([j \in DOMAIN row |-> row[j].key \in From(k)])
Supersede(v, why) == [plan EXCEPT ![v].superseded = why]

(***************************************************************************)
(* advance(): one transaction reads, the step runs in later ones.          *)
(***************************************************************************)
Enter(c, k, seq) ==
    /\ \/ \A d \in Calls : call[d].pc = "idle" /\ UNCHANGED clicks
       \/ /\ \E d \in Calls : call[d].pc # "idle"
          /\ clicks < MaxClicks /\ clicks' = clicks + 1
    /\ call' = [call EXCEPT ![c] = [NoCall EXCEPT !.pc = "run", !.key = k, !.seq = seq]]

Advance(c) ==
    /\ call[c].pc = "idle" /\ status \in Open /\ Done # Range(Arc)
    /\ Enter(c, NextKey, Cardinality(DOMAIN row) + 1)
    /\ UNCHANGED <<missionVars, key, raised, worldVars>>

Running(c, k) == call[c].pc = "run" /\ call[c].key = k

\* The unique index on (mission, seq) refuses the row: nothing is written.
Clash(c) ==
    /\ call[c].pc \in {"run", "publish"} /\ call[c].seq \in DOMAIN row
    /\ call[c].key \notin DocKinds
    /\ Leave(c)
    /\ UNCHANGED <<missionVars, key, raised, worldVars, clicks>>

\* stepIntake to stepSourcing; an order without a released BOM ends the mission.
Observe(c) ==
    /\ call[c].pc = "run" /\ Contains(Observations, call[c].key)
    /\ \/ WriteStep(c, "succeeded") /\ UNCHANGED status
       \/ /\ call[c].key = "engineering"
          /\ WriteStep(c, "failed") /\ status' = "failed"
    /\ Leave(c)
    /\ UNCHANGED <<tier, plan, approval, action, key, raised, worldVars, clicks>>

\* buildEvidence and refusedStrategies, before the transaction that publishes:
\* the strategies the evidence offers are scored, those a person refused last.
Propose(c) ==
    /\ Running(c, "strategy")
    /\ \E offered \in SUBSET Strategies \ {{}} :
          \E s \in IF offered \subseteq Refused THEN offered ELSE offered \ Refused :
             call' = [call EXCEPT ![c].pc = "publish", ![c].choice = s,
                                  ![c].asks = tier \in AskAt[s]]
    /\ UNCHANGED <<missionVars, key, raised, worldVars, clicks>>

NoCandidate(c) ==
    /\ Running(c, "strategy") /\ Leave(c)
    /\ UNCHANGED <<missionVars, key, raised, worldVars, clicks>>

Publish(c) ==
    /\ call[c].pc = "publish" /\ Version < MaxPlans
    /\ WriteStep(c, "succeeded")
    /\ plan' = Append(plan, [strategy |-> call[c].choice, asks |-> call[c].asks,
                             superseded |-> "no"])
    /\ Leave(c)
    /\ UNCHANGED <<status, tier, approval, action, key, raised, worldVars, clicks>>

\* The verifier re-derives the plan from evidence that may have moved.
Critique(c) ==
    /\ Running(c, "critique")
    /\ \/ WriteStep(c, "succeeded") /\ UNCHANGED status
       \/ WriteStep(c, "failed") /\ status' = "failed"
    /\ Leave(c)
    /\ UNCHANGED <<tier, plan, approval, action, key, raised, worldVars, clicks>>

\* Mutant: the gate looks at the order of the steps only.
AuthorizeAnything(c) ==
    /\ Running(c, "authorize")
    /\ WriteStep(c, "succeeded") /\ status' = "executing"
    /\ Leave(c)
    /\ UNCHANGED <<tier, plan, approval, action, key, raised, worldVars, clicks>>

\* stepAuthorize goes by what the plan said when it was made.
Authorize(c) ==
    /\ Running(c, "authorize")
    /\ IF plan[Version].asks
       THEN /\ WriteStep(c, "waiting_approval") /\ status' = "awaiting_approval"
            /\ approval' = Append(approval, [version |-> Version, decision |-> "pending"])
       ELSE /\ WriteStep(c, "succeeded") /\ status' = "executing"
            /\ UNCHANGED approval
    /\ Leave(c)
    /\ UNCHANGED <<tier, plan, action, key, raised, worldVars, clicks>>

\* The reservation is read back in the transaction that made it.
Reserve(c) ==
    /\ Running(c, "reserve")
    /\ WriteStep(c, "succeeded")
    /\ action' = [action EXCEPT !["reserve"][Version] = @ \cup {"verified"}]
    /\ Leave(c)
    /\ UNCHANGED <<status, tier, plan, approval, key, raised, worldVars, clicks>>

(***************************************************************************)
(* stepProcure and stepWorkOrder: read, raise each document through the    *)
(* port under its key, record.                                             *)
(***************************************************************************)
Doc(c, p) == <<call[c].key, call[c].version, p>>
Fault(c) == call[c].armed /\ Parties(call[c].key, call[c].version) # {}

\* Nothing is attempted while a fault is armed.
Gather(c) ==
    /\ call[c].pc = "run" /\ call[c].key \in DocKinds
    /\ LET armed == call[c].key = "procure" /\ fault = "armed" IN
       call' = [call EXCEPT
                  ![c].pc = "raise", ![c].version = Version, ![c].armed = armed,
                  ![c].todo = IF armed THEN {} ELSE Parties(call[c].key, Version)]
    /\ UNCHANGED <<missionVars, key, raised, worldVars, clicks>>

Raising(c) == call[c].pc = "raise" /\ ~call[c].failed

\* The plan names a vendor or an item that the masters do not hold.
Unresolved(c) ==
    /\ Raising(c) /\ call[c].key = "procure" /\ call[c].todo # {}
    /\ call[c].todo = Parties("procure", call[c].version)
    /\ WriteStep(c, "failed") /\ status' = "failed"
    /\ Leave(c)
    /\ UNCHANGED <<tier, plan, approval, action, key, raised, worldVars, clicks>>

\* Mutant: a key that another holds is taken for a free one.
ClaimAgain(c, p) ==
    /\ Raising(c) /\ p \in call[c].todo /\ key[Doc(c, p)] # "done"
    /\ key' = [key EXCEPT ![Doc(c, p)] = "claimed"]
    /\ call' = [call EXCEPT ![c].pc = "port", ![c].todo = @ \ {p}, ![c].choice = p]
    /\ UNCHANGED <<missionVars, raised, worldVars, clicks>>

Claim(c, p) ==
    /\ Raising(c) /\ p \in call[c].todo /\ key[Doc(c, p)] = "free"
    /\ key' = [key EXCEPT ![Doc(c, p)] = "claimed"]
    /\ call' = [call EXCEPT ![c].pc = "port", ![c].todo = @ \ {p}, ![c].choice = p]
    /\ UNCHANGED <<missionVars, raised, worldVars, clicks>>

\* A settled key answers again, unless the request is no longer the same.
Replay(c, p) ==
    /\ Raising(c) /\ p \in call[c].todo /\ key[Doc(c, p)] = "done"
    /\ \/ call' = [call EXCEPT ![c].todo = @ \ {p}]
       \/ call' = [call EXCEPT ![c].failed = TRUE]
    /\ UNCHANGED <<missionVars, key, raised, worldVars, clicks>>

\* isConcurrentAttempt: the sibling holds the key, this call writes nothing.
Yield(c, p) ==
    /\ Raising(c) /\ p \in call[c].todo /\ key[Doc(c, p)] = "claimed"
    /\ Leave(c)
    /\ UNCHANGED <<missionVars, key, raised, worldVars, clicks>>

PortDone(c) ==
    /\ call[c].pc = "port"
    /\ raised' = [raised EXCEPT ![Doc(c, call[c].choice)] = @ + 1]
    /\ key' = [key EXCEPT ![Doc(c, call[c].choice)] = "done"]
    /\ Goto(c, "raise")
    /\ UNCHANGED <<missionVars, worldVars, clicks>>

PortRefused(c) ==
    /\ call[c].pc = "port"
    /\ key' = [key EXCEPT ![Doc(c, call[c].choice)] = "free"]
    /\ call' = [call EXCEPT ![c].pc = "raise", ![c].failed = TRUE]
    /\ UNCHANGED <<missionVars, raised, worldVars, clicks>>

\* The documents are read back; one may have moved on from the draft it was.
Recording(c) == call[c].pc = "raise" /\ (call[c].failed \/ call[c].todo = {})
ReadBack(c) == IF call[c].failed \/ Fault(c) THEN {FALSE} ELSE {TRUE, FALSE}

\* recordAction: a row goes by its parameters, which each attempt works out anew;
\* one with the same is written over, one with others stays beside the new one.
Outcome(rows, outcome) ==
    {rest \cup {outcome} : rest \in {rows} \cup {rows \ {old} : old \in rows}}

\* Mutant: what the port answered counts, not what is read back.
RecordTheAnswer(c) ==
    /\ Recording(c)
    /\ action' = [action EXCEPT ![call[c].key][call[c].version] = @ \cup {"verified"}]
    /\ WriteStep(c, "succeeded")
    /\ fault' = IF Fault(c) THEN "fired" ELSE fault
    /\ Leave(c)
    /\ UNCHANGED <<status, tier, plan, approval, key, raised, disrupted, spent, clicks>>

Record(c) ==
    /\ Recording(c)
    /\ \E holds \in ReadBack(c) :
          /\ \E rows \in Outcome(action[call[c].key][call[c].version],
                                IF holds THEN "verified" ELSE "failed") :
                action' = [action EXCEPT ![call[c].key][call[c].version] = rows]
          /\ WriteStep(c, IF holds THEN "succeeded" ELSE "failed")
          /\ status' = IF holds THEN status ELSE "failed"
    /\ fault' = IF Fault(c) THEN "fired" ELSE fault
    /\ Leave(c)
    /\ UNCHANGED <<tier, plan, approval, key, raised, disrupted, spent, clicks>>

\* Documents stand although the record of them was refused with the row.
RecordClash(c) ==
    /\ Recording(c) /\ call[c].seq \in DOMAIN row
    /\ Leave(c)
    /\ UNCHANGED <<missionVars, key, raised, worldVars, clicks>>

\* stepWatch: what happens next is the world's.
Watch(c) ==
    /\ Running(c, "watch")
    /\ WriteStep(c, "succeeded") /\ status' = "waiting"
    /\ Leave(c)
    /\ UNCHANGED <<tier, plan, approval, action, key, raised, worldVars, clicks>>

\* stepClose: without dispatch, release and invoice the mission waits on and
\* no row is written; with them the gate judges, and every action must hold.
AllVerified == \A k \in ActionKinds, v \in 1 .. MaxPlans :
                  "failed" \notin action[k][v]
Verdicts == IF AllVerified THEN {"met", "missed", "unproven"} ELSE {"missed", "unproven"}
Close(c) ==
    /\ Running(c, "close")
    /\ \E gate \in Verdicts :
          IF gate = "unproven"
          THEN status' = "waiting" /\ UNCHANGED row
          ELSE /\ WriteStep(c, IF gate = "met" THEN "succeeded" ELSE "failed")
               /\ status' = IF gate = "met" THEN "completed" ELSE "failed"
    /\ Leave(c)
    /\ UNCHANGED <<tier, plan, approval, action, key, raised, worldVars, clicks>>

(***************************************************************************)
(* What people and the world do between the steps.                         *)
(***************************************************************************)
ExecuteKeys == {"reserve", "procure", "workorder", "watch", "close"}
\* retry(): the last failed row and all after it go, and its step runs again.
Failed == {i \in DOMAIN row : row[i].status = "failed"}
Retry(c) == \E last \in Failed :
    LET k == row[last].key
    IN /\ \A i \in Failed : i <= last
       /\ call[c].pc = "idle" /\ k # "authorize" /\ retried < MaxRetries
       /\ retried' = retried + 1
       /\ DeleteSteps([j \in DOMAIN row |-> j >= last])
       /\ status' = IF k \in ExecuteKeys THEN "executing" ELSE "planning"
       /\ Enter(c, k, last)
       /\ UNCHANGED <<tier, plan, approval, action, key, raised, fault, disrupted,
                      changes, crashes>>

\* The digest is compared with that of the plan's own row, which never changes.
Decision(a, d) ==
    /\ Pending(a)
    /\ approval' = [approval EXCEPT ![a].decision = d]
Answered(st) == [i \in DOMAIN row |->
    IF row[i].key = "authorize" THEN [row[i] EXCEPT !.status = st] ELSE row[i]]

Approve(a) ==
    /\ Decision(a, "approved") /\ row' = Answered("succeeded") /\ status' = "executing"
    /\ UNCHANGED <<tier, plan, action, key, raised, call, worldVars, clicks>>
Reject(a) ==
    /\ Decision(a, "rejected") /\ row' = Answered("failed") /\ status' = "failed"
    /\ UNCHANGED <<tier, plan, action, key, raised, call, worldVars, clicks>>
TryAnother(a) ==
    /\ Decision(a, "another") /\ Rewind("strategy") /\ status' = "replanning"
    /\ plan' = Supersede(approval[a].version, "refused")
    /\ UNCHANGED <<tier, action, key, raised, call, worldVars, clicks>>

\* injectDisruption: the same message twice wakes the mission once.
Disrupt ==
    /\ ~disrupted /\ Version > 0 /\ disrupted' = TRUE
    /\ IF Delayed \in Sources[plan[Version].strategy]
       THEN /\ Rewind("strategy") /\ plan' = Supersede(Version, "overtaken")
            /\ status' = "replanning"
       ELSE UNCHANGED <<row, plan, status>>
    /\ UNCHANGED <<tier, approval, action, key, raised, call, fault, spent, clicks>>

\* Pending approvals are deleted: nobody can answer them any more.
Withdraw ==
    approval' = [a \in DOMAIN approval |->
        IF Pending(a) THEN [approval[a] EXCEPT !.decision = "withdrawn"] ELSE approval[a]]

SetAutonomy(t) ==
    /\ changes < MaxChanges /\ status \notin Closed /\ ~HasActed
    /\ tier' = t /\ status' = "planning" /\ Withdraw /\ Rewind("authorize")
    /\ changes' = changes + 1
    /\ UNCHANGED <<plan, action, key, raised, call, fault, disrupted, retried,
                   crashes, clicks>>

\* ingestSupplierTerms: every plan still in force is overtaken.
Upload ==
    /\ changes < MaxChanges /\ status \notin Closed /\ ~HasActed
    /\ Withdraw /\ Rewind("sourcing") /\ status' = "planning"
    /\ plan' = [v \in 1 .. Version |->
                  IF plan[v].superseded = "no"
                  THEN [plan[v] EXCEPT !.superseded = "overtaken"] ELSE plan[v]]
    /\ changes' = changes + 1
    /\ UNCHANGED <<tier, action, key, raised, call, fault, disrupted, retried,
                   crashes, clicks>>

ArmFault ==
    /\ changes < MaxChanges /\ fault = "none" /\ fault' = "armed"
    /\ changes' = changes + 1
    /\ UNCHANGED <<missionVars, key, raised, call, disrupted, retried, crashes, clicks>>

\* The process dies: a claimed key stays claimed, its document may stand.
Crash(c) ==
    /\ crashes < MaxCrashes /\ call[c].pc \in {"raise", "port"}
    /\ crashes' = crashes + 1
    /\ \/ UNCHANGED raised
       \/ /\ call[c].pc = "port"
          /\ raised' = [raised EXCEPT ![Doc(c, call[c].choice)] = @ + 1]
    /\ Leave(c)
    /\ UNCHANGED <<missionVars, key, fault, disrupted, retried, changes,
                   clicks>>

Step(c) ==
    \/ Observe(c) \/ Propose(c) \/ NoCandidate(c) \/ Publish(c) \/ Critique(c)
    \/ Authorize(c) \/ Reserve(c) \/ Gather(c) \/ Unresolved(c)
    \/ \E p \in Vendors \cup MakeLines : Claim(c, p) \/ Replay(c, p) \/ Yield(c, p)
    \/ PortDone(c) \/ PortRefused(c) \/ Record(c) \/ RecordClash(c)
    \/ Watch(c) \/ Close(c) \/ Clash(c)
Person ==
    \/ \E a \in DOMAIN approval : Approve(a) \/ Reject(a) \/ TryAnother(a)
    \/ \E t \in Tiers : SetAutonomy(t)
    \/ Upload \/ ArmFault
Next == \/ \E c \in Calls : Advance(c) \/ Retry(c) \/ Step(c) \/ Crash(c)
        \/ Person \/ Disrupt
Spec == Init /\ [][Next]_vars

(***************************************************************************)
(* Properties.                                                             *)
(***************************************************************************)
Decisions == {"pending", "approved", "rejected", "another", "withdrawn"}
CallStates ==
    [pc : {"idle", "run", "publish", "raise", "port"}, key : Range(Arc) \cup {"none"},
     seq : Nat, version : 0 .. MaxPlans, asks : BOOLEAN,
     choice : Strategies \cup Vendors \cup MakeLines \cup {"none"},
     todo : SUBSET (Vendors \cup MakeLines), failed : BOOLEAN, armed : BOOLEAN]
TypeOK ==
    /\ status \in Closed \cup Open \cup {"awaiting_approval", "waiting"}
    /\ tier \in Tiers
    /\ DOMAIN row \subseteq Nat
    /\ \A i \in DOMAIN row :
          row[i] \in [key : Range(Arc),
                      status : {"succeeded", "failed", "waiting_approval"}]
    /\ Version <= MaxPlans
    /\ plan \in Seq([strategy : Strategies, asks : BOOLEAN,
                     superseded : {"no", "refused", "overtaken"}])
    /\ approval \in Seq([version : 1 .. Version, decision : Decisions])
    /\ action \in [ActionKinds -> [1 .. MaxPlans -> SUBSET {"verified", "failed"}]]
    /\ key \in [Docs -> {"free", "claimed", "done"}] /\ raised \in [Docs -> Nat]
    /\ call \in [Calls -> CallStates]
    /\ fault \in {"none", "armed", "fired"}

\* However often a step is run, by however many calls, with crashes and retries
\* between, a vendor is sent one order and a line one work order per plan.
RaisedOnce == \A d \in Docs : raised[d] <= 1

\* An action is verified only when every document of its plan stands.
VerifiedIsReal ==
    \A k \in DocKinds, v \in 1 .. Version :
       "verified" \in action[k][v] =>
          \A p \in Parties(k, v) : raised[<<k, v, p>>] = 1

Granted(v) == \E a \in DOMAIN approval : approval[a] = [version |-> v, decision |-> "approved"]
\* No call was started while another was running.
OneAtATime == clicks = 0
\* Documents of a plan outside the authority exist only after a person approved
\* that plan, whatever people change between two steps and however often steps
\* fail and are run again, as long as the calls come one at a time and no
\* disruption overtakes an open request.
MoneyNeedsAuthority ==
    OneAtATime /\ ~disrupted =>
        \A d \in Docs : raised[d] > 0 /\ plan[d[2]].asks => Granted(d[2])
\* The same without the exceptions, as decide() promises (refuted).
AuthorityIsForOnePlan ==
    \A d \in Docs : raised[d] > 0 /\ plan[d[2]].asks => Granted(d[2])

\* A mission whose calls come one at a time is completed with every document of
\* the plan in force.
CompletedIsProven ==
    OneAtATime /\ status = "completed" =>
        \A k \in DocKinds : \A p \in Parties(k, Version) : raised[<<k, Version, p>>] = 1
=============================================================================
