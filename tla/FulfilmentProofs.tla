-------------------------- MODULE FulfilmentProofs --------------------------
(***************************************************************************)
(* The fulfilment mission for any number of concurrent calls, plans,       *)
(* vendors and lines, and any number of crashes, retries and changes.      *)
(***************************************************************************)
EXTENDS Fulfilment, FiniteSetTheorems, SequenceTheorems, WellFoundedInduction, TLAPS

\* A set of numbers has a least one.
LEMMA LeastNumber ==
    ASSUME NEW S \in SUBSET Nat, S # {}
    PROVE  \E x \in S : \A y \in S : x <= y
<1> DEFINE Before == OpToRel(<, Nat)
<1>1. IsWellFoundedOn(Before, Nat)
  BY NatLessThanWellFounded
<1>2. \A y, x \in Nat : y < x => <<y, x>> \in Before
  BY DEF OpToRel
<1> HIDE DEF Before
<1>3. PICK x \in S : \A y \in S : ~ (<<y, x>> \in Before)
  BY <1>1, WFMin
<1>4. \A y \in S : ~ (y < x)
  BY <1>2, <1>3
<1>5. \A y \in S : x <= y
  BY <1>4
<1> QED
  BY <1>5

\* The steps after the strategy.
Later == Range(Commitments) \ {"strategy"}

CommitKeys == {"strategy", "critique", "authorize", "reserve",
               "procure", "workorder", "watch", "close"}

LEMMA CommitmentKeys ==
    /\ Commitments \in Seq(CommitKeys) /\ Len(Commitments) = 8
    /\ Commitments[1] = "strategy"
    /\ Range(Commitments) = CommitKeys
<1>1. Commitments \in Seq(CommitKeys) /\ Len(Commitments) = 8
  BY DEF Commitments, CommitKeys
<1>2. /\ Commitments[1] = "strategy" /\ Commitments[2] = "critique"
      /\ Commitments[3] = "authorize" /\ Commitments[4] = "reserve"
      /\ Commitments[5] = "procure" /\ Commitments[6] = "workorder"
      /\ Commitments[7] = "watch" /\ Commitments[8] = "close"
  BY DEF Commitments
<1>3. DOMAIN Commitments = {1, 2, 3, 4, 5, 6, 7, 8}
  BY <1>1
<1>4. ASSUME NEW x
      PROVE  x \in Range(Commitments)
                <=> \E i \in {1, 2, 3, 4, 5, 6, 7, 8} : x = Commitments[i]
  BY <1>3 DEF Range
<1> QED
  BY <1>1, <1>2, <1>4 DEF CommitKeys

\* The arc is the observations, then the strategy, then what follows it.
LEMMA ArcKeys ==
    /\ Arc \in Seq(Range(Arc)) /\ Len(Observations) \in Nat
    /\ Range(Arc) = Range(Observations) \cup CommitKeys
    /\ Range(Observations) \cap CommitKeys = {}
    /\ Arc[Len(Observations) + 1] = "strategy"
    /\ \A i \in DOMAIN Arc : Arc[i] \in Later => Len(Observations) + 1 \in 1 .. i - 1
<1> DEFINE n == Len(Observations)
           S == Range(Observations) \cup CommitKeys
<1>1. /\ Observations \in Seq(STRING)
      /\ Range(Observations) \cap CommitKeys = {}
  BY MissionAssumption, CommitmentKeys DEF MissionAssumption
<1>2. Observations \in Seq(S)
  <2>1. Observations \in Seq(Range(Observations))
    BY <1>1, SeqOfRange, Zenon
  <2> QED
    BY <2>1, SeqMonotonic, Zenon
<1>3. Commitments \in Seq(S)
  BY CommitmentKeys, SeqMonotonic, Zenon
<1>4. /\ n \in Nat /\ DOMAIN Observations = 1 .. n
      /\ DOMAIN Commitments = 1 .. 8
  <2>1. n \in Nat /\ DOMAIN Observations = 1 .. n
    BY <1>1, LenProperties, Zenon
  <2> QED
    BY <2>1, CommitmentKeys
<1>5. /\ Arc \in Seq(S) /\ Len(Arc) = n + Len(Commitments)
      /\ \A i \in 1 .. n + Len(Commitments) :
            Arc[i] = IF i <= n THEN Observations[i] ELSE Commitments[i - n]
  BY <1>2, <1>3, ConcatProperties, Zenon DEF Arc
<1>6. Range(Arc) = S
  <2>1. Range(Observations \o Commitments) = Range(Observations) \cup Range(Commitments)
    BY <1>2, <1>3, RangeConcatenation, Zenon
  <2> QED
    BY <2>1, CommitmentKeys DEF Arc
<1>7. DOMAIN Arc = 1 .. n + 8
  <2>1. DOMAIN Arc = 1 .. Len(Arc)
    BY <1>5, LenProperties, Zenon
  <2> QED
    BY <1>5, <2>1, CommitmentKeys
<1> HIDE DEF n, S
<1>8. \A i \in 1 .. n + 8 : Arc[i] = IF i <= n THEN Observations[i] ELSE Commitments[i - n]
  BY <1>5, CommitmentKeys
<1>9. Arc[n + 1] = "strategy"
  <2>1. n + 1 \in 1 .. n + 8 /\ ~ (n + 1 <= n) /\ (n + 1) - n = 1
    BY <1>4
  <2> QED
    BY <1>8, <2>1, CommitmentKeys
<1>10. ASSUME NEW i \in DOMAIN Arc, Arc[i] \in Later PROVE n + 1 \in 1 .. i - 1
  <2>1. ~ (i <= n)
    <3>1. i <= n => Arc[i] \in Range(Observations)
      BY <1>4, <1>7, <1>8 DEF Range
    <3> QED
      BY <1>1, <1>10, <3>1, CommitmentKeys DEF Later
  <2>2. i # n + 1
    BY <1>9, <1>10 DEF Later
  <2> QED
    BY <1>4, <1>7, <2>1, <2>2
<1> QED
  BY <1>1, <1>4, <1>5, <1>6, <1>9, <1>10 DEF n, S

\* The step that is next is a step of the arc, and one that follows the strategy
\* is next only when the strategy has its row.
LEMMA NextKeyIsNext ==
    ASSUME Done \subseteq Range(Arc), Done # Range(Arc)
    PROVE  NextKey \in Range(Arc) /\ (NextKey \in Later => "strategy" \in Done)
<1> DEFINE S == {i \in DOMAIN Arc : Arc[i] \notin Done}
           IsNext(i) == Arc[i] \notin Done /\ \A j \in 1 .. i - 1 : Arc[j] \in Done
           k == CHOOSE i \in DOMAIN Arc : IsNext(i)
<1>1. DOMAIN Arc = 1 .. Len(Arc) /\ Len(Arc) \in Nat
  BY ArcKeys
<1>2. S \in SUBSET Nat /\ S # {}
  BY <1>1 DEF Range
<1>3. PICK i \in S : \A j \in S : i <= j
  BY <1>2, LeastNumber
<1>4. i \in DOMAIN Arc /\ IsNext(i)
  BY <1>1, <1>3
<1>5. k \in DOMAIN Arc /\ IsNext(k)
  BY <1>4
<1>6. NextKey = Arc[k]
  BY DEF NextKey
<1> HIDE DEF k
<1>7. Arc[k] \in Later => "strategy" \in Done
  BY <1>5, ArcKeys
<1> QED
  BY <1>5, <1>6, <1>7 DEF Range

-----------------------------------------------------------------------------
(***************************************************************************)
(* Types.  A row or a call of a step after the strategy exists only once a *)
(* plan does, and a call that raises documents has a plan to raise them    *)
(* for; plans are never removed.                                           *)
(***************************************************************************)
Plans == [strategy : Strategies, asks : BOOLEAN,
          superseded : {"no", "refused", "overtaken"}]
GoodRow(x, n) ==
    /\ x \in [key : Range(Arc), status : {"succeeded", "failed", "waiting_approval"}]
    /\ x.key \in CommitKeys => n >= 1
GoodCall(x, n) ==
    /\ x \in CallStates
    /\ x.key \in Later => n >= 1
    /\ x.pc # "idle" => x.key \in Range(Arc)
    /\ x.pc = "publish" => x.key = "strategy" /\ x.choice \in Strategies
    /\ x.pc \in {"raise", "port"} => x.key \in DocKinds /\ x.version \in 1 .. n
Rows ==
    /\ DOMAIN row \subseteq Nat /\ IsFiniteSet(DOMAIN row)
    /\ \A i \in DOMAIN row : GoodRow(row[i], Version)
GoodCalls ==
    /\ call \in [Calls -> CallStates]
    /\ \A c \in Calls : GoodCall(call[c], Version)
Planning ==
    /\ plan \in Seq(Plans) /\ Version <= MaxPlans
    /\ approval \in Seq([version : 1 .. Version, decision : Decisions])
Base == TypeOK /\ Rows /\ GoodCalls

LEMMA BasePlanning ==
    ASSUME Base
    PROVE  /\ Planning /\ Version \in Nat /\ MaxPlans \in Nat
           /\ \A v \in 1 .. Version : plan[v] \in Plans
           /\ \A a \in DOMAIN approval :
                 approval[a] \in [version : 1 .. Version, decision : Decisions]
<1>1. Planning
  BY DEF Base, TypeOK, Planning, Plans
<1>2. Version \in Nat /\ \A v \in 1 .. Version : plan[v] \in Plans
  BY <1>1, LenProperties, ElementOfSeq, Zenon DEF Planning, Version
<1>3. DOMAIN approval = 1 .. Len(approval)
  BY <1>1, LenProperties, Zenon DEF Planning
<1>4. \A a \in DOMAIN approval :
          approval[a] \in [version : 1 .. Version, decision : Decisions]
  BY <1>1, <1>3, ElementOfSeq, Zenon DEF Planning
<1> QED
  BY <1>1, <1>2, <1>4, MissionAssumption DEF MissionAssumption

\* Superseding a plan changes nothing else of the plans.
LEMMA SupersedeKeeps ==
    ASSUME Base, NEW v \in 1 .. Version, NEW why \in {"refused", "overtaken"},
           plan' = Supersede(v, why)
    PROVE  /\ plan' \in Seq(Plans) /\ Version' = Version
           /\ \A u \in 1 .. Version : plan'[u].strategy = plan[u].strategy
                                      /\ plan'[u].asks = plan[u].asks
<1> DEFINE p == [plan[v] EXCEPT !.superseded = why]
<1>1. plan \in Seq(Plans) /\ v \in 1 .. Len(plan)
  BY BasePlanning DEF Planning, Version
<1>2. p \in Plans /\ p.strategy = plan[v].strategy /\ p.asks = plan[v].asks
  BY BasePlanning DEF Plans
<1>3. plan' = [plan EXCEPT ![v] = p]
  BY DEF Supersede
<1> HIDE DEF p
<1>4. /\ [plan EXCEPT ![v] = p] \in Seq(Plans)
      /\ Len([plan EXCEPT ![v] = p]) = Len(plan)
      /\ \A u \in 1 .. Len(plan) : [plan EXCEPT ![v] = p][u] = IF u = v THEN p ELSE plan[u]
  BY <1>1, <1>2, ExceptSeq
<1> QED
  BY <1>2, <1>3, <1>4 DEF Version

\* Plans are added and superseded, never changed otherwise.
LEMMA PlansGrow ==
    ASSUME Base, [Next]_vars
    PROVE  /\ plan' \in Seq(Plans) /\ Version' \in Version .. MaxPlans
           /\ \A u \in 1 .. Version : plan'[u].strategy = plan[u].strategy
                                      /\ plan'[u].asks = plan[u].asks
<1> DEFINE Grown == /\ plan' \in Seq(Plans) /\ Version' \in Version .. MaxPlans
                    /\ \A u \in 1 .. Version : plan'[u].strategy = plan[u].strategy
                                               /\ plan'[u].asks = plan[u].asks
<1>1. plan \in Seq(Plans) /\ Version \in Nat /\ MaxPlans \in Nat /\ Version <= MaxPlans
  BY BasePlanning DEF Planning
<1>2. ASSUME UNCHANGED plan PROVE Grown
  BY <1>1, <1>2 DEF Version
<1>3. ASSUME NEW v \in 1 .. Version, NEW why \in {"refused", "overtaken"},
             plan' = Supersede(v, why)
      PROVE  Grown
  BY <1>1, <1>3, SupersedeKeeps
<1>4. ASSUME NEW c \in Calls, Publish(c) PROVE Grown
  <2> DEFINE p == [strategy |-> call[c].choice, asks |-> call[c].asks, superseded |-> "no"]
  <2>1. p \in Plans
    BY <1>4 DEF Publish, Base, GoodCalls, GoodCall, CallStates, Plans
  <2>2. plan' = Append(plan, p) /\ Version < MaxPlans
    BY <1>4 DEF Publish
  <2> HIDE DEF p
  <2>3. /\ Append(plan, p) \in Seq(Plans) /\ Len(Append(plan, p)) = Len(plan) + 1
        /\ \A u \in 1 .. Len(plan) : Append(plan, p)[u] = plan[u]
    BY <1>1, <2>1, AppendProperties
  <2> QED
    BY <1>1, <2>2, <2>3 DEF Version
<1>5. ASSUME NEW a \in DOMAIN approval, TryAnother(a) PROVE Grown
  <2>1. approval[a].version \in 1 .. Version
    BY BasePlanning
  <2> QED
    BY <1>3, <1>5, <2>1 DEF TryAnother
<1>6. ASSUME Disrupt PROVE Grown
  <2>1. Version \in 1 .. Version
    BY <1>1, <1>6 DEF Disrupt
  <2> QED
    BY <1>2, <1>3, <1>6, <2>1 DEF Disrupt
<1>7. ASSUME Upload PROVE Grown
  <2>1. plan' = [v \in 1 .. Version |->
                   IF plan[v].superseded = "no"
                   THEN [plan[v] EXCEPT !.superseded = "overtaken"] ELSE plan[v]]
    BY <1>7 DEF Upload
  <2>2. \A v \in 1 .. Version : plan'[v] \in Plans /\ plan'[v].strategy = plan[v].strategy
                                /\ plan'[v].asks = plan[v].asks
    BY <2>1, BasePlanning DEF Plans
  <2>3. plan' \in [1 .. Version -> Plans]
    BY <2>1, <2>2
  <2>4. plan' \in Seq(Plans)
    BY <1>1, <2>3
  <2>5. Len(plan') = Version
    BY <1>1, <2>3, <2>4
  <2> QED
    BY <1>1, <2>2, <2>4, <2>5 DEF Version
<1>8. ASSUME NEW c \in Calls,
             \/ Advance(c) \/ Retry(c) \/ Crash(c) \/ Observe(c) \/ Propose(c)
             \/ NoCandidate(c) \/ Critique(c) \/ Authorize(c) \/ Reserve(c) \/ Gather(c)
             \/ Unresolved(c) \/ PortDone(c) \/ PortRefused(c) \/ Record(c)
             \/ RecordClash(c) \/ Watch(c) \/ Close(c) \/ Clash(c)
             \/ \E p \in Vendors \cup MakeLines : Claim(c, p) \/ Replay(c, p) \/ Yield(c, p)
      PROVE  UNCHANGED plan
  BY <1>8 DEF Advance, Retry, Crash, Observe, Propose, NoCandidate, Critique, Authorize,
     Reserve, Gather, Unresolved, PortDone, PortRefused, Record, RecordClash, Watch, Close,
     Clash, Claim, Replay, Yield, missionVars
<1>9. ASSUME \/ \E a \in DOMAIN approval : Approve(a) \/ Reject(a)
             \/ \E t \in Tiers : SetAutonomy(t)
             \/ ArmFault \/ UNCHANGED vars
      PROVE  UNCHANGED plan
  BY <1>9 DEF Approve, Reject, SetAutonomy, ArmFault, vars, missionVars
<1> QED
  BY <1>2, <1>4, <1>5, <1>6, <1>7, <1>8, <1>9 DEF Next, Step, Person

\* An approval always asks about a plan there is.
LEMMA ApprovalsTyped ==
    ASSUME Base, [Next]_vars
    PROVE  approval' \in Seq([version : 1 .. Version', decision : Decisions])
<1> DEFINE A(n) == [version : 1 .. n, decision : Decisions]
<1>1. /\ approval \in Seq(A(Version)) /\ Version \in Nat
      /\ Version' \in Nat /\ Version <= Version'
  BY BasePlanning, PlansGrow DEF Planning
<1>2. A(Version) \subseteq A(Version')
  BY <1>1
<1>3. ASSUME approval' \in Seq(A(Version)) PROVE approval' \in Seq(A(Version'))
  <2> HIDE DEF A
  <2> QED
    BY <1>2, <1>3, SeqMonotonic, Zenon
<1>4. ASSUME UNCHANGED approval PROVE approval' \in Seq(A(Version))
  BY <1>1, <1>4
<1>5. ASSUME NEW c \in Calls, Authorize(c) PROVE approval' \in Seq(A(Version))
  <2> DEFINE x == [version |-> Version, decision |-> "pending"]
  <2>1. Version \in 1 .. Version
    <3>1. call[c].key = "authorize"
      BY <1>5 DEF Authorize, Running
    <3>2. "authorize" \in Later
      BY CommitmentKeys DEF Later, CommitKeys
    <3> QED
      BY <1>1, <3>1, <3>2 DEF Base, GoodCalls, GoodCall
  <2>2. x \in A(Version)
    BY <2>1 DEF Decisions
  <2>3. approval' = Append(approval, x) \/ UNCHANGED approval
    BY <1>5 DEF Authorize
  <2> HIDE DEF x, A
  <2> QED
    BY <1>1, <2>2, <2>3, AppendProperties
<1>6. ASSUME NEW a \in DOMAIN approval, NEW d \in Decisions, Decision(a, d)
      PROVE  approval' \in Seq(A(Version))
  <2> DEFINE x == [approval[a] EXCEPT !.decision = d]
  <2>1. x \in A(Version)
    BY BasePlanning
  <2>2. approval' = [approval EXCEPT ![a] = x]
    BY <1>6 DEF Decision
  <2>3. a \in 1 .. Len(approval)
    BY <1>1, LenProperties, Zenon
  <2> HIDE DEF x, A
  <2> QED
    BY <1>1, <2>1, <2>2, <2>3, ExceptSeq
<1>7. ASSUME Withdraw PROVE approval' \in Seq(A(Version))
  <2>1. DOMAIN approval = 1 .. Len(approval) /\ Len(approval) \in Nat
    BY <1>1, LenProperties, Zenon
  <2>2. ASSUME NEW a \in DOMAIN approval
        PROVE  (IF Pending(a) THEN [approval[a] EXCEPT !.decision = "withdrawn"]
                ELSE approval[a]) \in A(Version)
    <3>1. approval[a] \in A(Version)
      BY BasePlanning
    <3> QED
      BY <3>1 DEF Decisions
  <2>3. approval' \in [1 .. Len(approval) -> A(Version)]
    BY <1>7, <2>1, <2>2 DEF Withdraw
  <2> HIDE DEF A
  <2> QED
    BY <2>1, <2>3
<1>8. ASSUME NEW a \in DOMAIN approval, Approve(a) \/ Reject(a) \/ TryAnother(a)
      PROVE  approval' \in Seq(A(Version))
  BY <1>6, <1>8 DEF Approve, Reject, TryAnother, Decisions
<1>9. ASSUME Upload \/ \E t \in Tiers : SetAutonomy(t) PROVE approval' \in Seq(A(Version))
  BY <1>7, <1>9 DEF Upload, SetAutonomy
<1>10. ASSUME NEW c \in Calls,
             \/ Advance(c) \/ Retry(c) \/ Crash(c) \/ Observe(c) \/ Propose(c)
             \/ NoCandidate(c) \/ Publish(c) \/ Critique(c) \/ Reserve(c) \/ Gather(c)
             \/ Unresolved(c) \/ PortDone(c) \/ PortRefused(c) \/ Record(c)
             \/ RecordClash(c) \/ Watch(c) \/ Close(c) \/ Clash(c)
             \/ \E p \in Vendors \cup MakeLines : Claim(c, p) \/ Replay(c, p) \/ Yield(c, p)
      PROVE  UNCHANGED approval
  BY <1>10 DEF Advance, Retry, Crash, Observe, Propose, NoCandidate, Publish, Critique,
     Reserve, Gather, Unresolved, PortDone, PortRefused, Record, RecordClash, Watch, Close,
     Clash, Claim, Replay, Yield, missionVars
<1>11. ASSUME Disrupt \/ ArmFault \/ UNCHANGED vars PROVE UNCHANGED approval
  BY <1>11 DEF Disrupt, ArmFault, vars, missionVars
<1> QED
  BY <1>3, <1>4, <1>5, <1>8, <1>9, <1>10, <1>11 DEF Next, Step, Person

\* What a call becomes when it starts, stops or goes on.
LEMMA CallSteps ==
    ASSUME Base, NEW n \in Nat, Version <= n, NEW c \in Calls
    PROVE  /\ \A d \in Calls : GoodCall(call[d], n)
           /\ Leave(c) => call' \in [Calls -> CallStates]
                          /\ \A d \in Calls : GoodCall(call'[d], n)
           /\ \A x : (call' = [call EXCEPT ![c] = x] /\ GoodCall(x, n))
                 => call' \in [Calls -> CallStates] /\ \A d \in Calls : GoodCall(call'[d], n)
<1>1. call \in [Calls -> CallStates] /\ Version \in Nat
  BY BasePlanning DEF Base, GoodCalls
<1>2. \A d \in Calls : GoodCall(call[d], n)
  BY <1>1 DEF Base, GoodCalls, GoodCall
<1>3. ASSUME NEW x, call' = [call EXCEPT ![c] = x], GoodCall(x, n)
      PROVE  call' \in [Calls -> CallStates] /\ \A d \in Calls : GoodCall(call'[d], n)
  <2>1. x \in CallStates
    BY <1>3 DEF GoodCall
  <2> QED
    BY <1>1, <1>2, <1>3, <2>1
<1>4. GoodCall(NoCall, n)
  <2>1. NoCall \in CallStates
    BY MissionAssumption DEF NoCall, CallStates, MissionAssumption
  <2>2. "none" \notin Later
    BY CommitmentKeys DEF Later, CommitKeys
  <2> QED
    BY <2>1, <2>2 DEF NoCall, GoodCall
<1> QED
  BY <1>2, <1>3, <1>4 DEF Leave

\* A call starts with the next step of the arc, or with one that failed.
LEMMA StartsWell ==
    ASSUME Base, NEW c \in Calls, NEW k, NEW s, Advance(c) \/ Retry(c),
           k = call'[c].key, s = call'[c].seq
    PROVE  /\ call' = [call EXCEPT ![c] =
                          [NoCall EXCEPT !.pc = "run", !.key = k, !.seq = s]]
           /\ k \in Range(Arc) /\ s \in Nat /\ (k \in Later => Version >= 1)
<1> DEFINE x(j, t) == [NoCall EXCEPT !.pc = "run", !.key = j, !.seq = t]
<1>1. ASSUME NEW j, NEW t, Enter(c, j, t) PROVE call' = [call EXCEPT ![c] = x(j, t)]
  BY <1>1 DEF Enter
<1>2. ASSUME NEW j, NEW t, Enter(c, j, t)
      PROVE  k = j /\ s = t /\ call' = [call EXCEPT ![c] = x(k, s)]
  <2>1. call' = [call EXCEPT ![c] = x(j, t)]
    BY <1>1, <1>2
  <2>2. x(j, t).key = j /\ x(j, t).seq = t
    BY DEF NoCall
  <2>3. call \in [Calls -> CallStates]
    BY DEF Base, GoodCalls
  <2> HIDE DEF x
  <2>4. call'[c] = x(j, t)
    BY <2>1, <2>3
  <2>5. k = j /\ s = t
    BY <2>2, <2>4
  <2> QED
    BY <2>1, <2>5
<1> DEFINE Started == call' = [call EXCEPT ![c] = x(k, s)]
<1>3. CASE Advance(c)
  <2>1. Enter(c, NextKey, Cardinality(DOMAIN row) + 1)
    BY <1>3 DEF Advance
  <2>2. k = NextKey /\ s = Cardinality(DOMAIN row) + 1 /\ Started
    BY <1>2, <2>1
  <2>3. Done \subseteq Range(Arc)
    BY DEF Done, Base, Rows, GoodRow
  <2>4. k \in Range(Arc) /\ (k \in Later => "strategy" \in Done)
    BY <1>3, <2>2, <2>3, NextKeyIsNext DEF Advance
  <2>5. "strategy" \in Done => Version >= 1
    BY DEF Done, Base, Rows, GoodRow, CommitKeys
  <2>6. s \in Nat
    BY <2>2, FS_CardinalityType DEF Base, Rows
  <2> QED
    BY <2>2, <2>4, <2>5, <2>6
<1>4. CASE Retry(c)
  <2>1. PICK last \in Failed : Enter(c, row[last].key, last)
    BY <1>4 DEF Retry
  <2>2. k = row[last].key /\ s = last /\ Started
    BY <1>2, <2>1
  <2>3. GoodRow(row[last], Version) /\ last \in Nat
    BY <2>1 DEF Failed, Base, Rows
  <2>4. Later \subseteq CommitKeys
    BY CommitmentKeys DEF Later
  <2> QED
    BY <2>2, <2>3, <2>4 DEF GoodRow
<1> QED
  BY <1>3, <1>4

\* A call that raises documents has its parties among the vendors and lines.
LEMMA PartiesTyped ==
    ASSUME Base, NEW k \in DocKinds, NEW v \in 1 .. Version
    PROVE  Parties(k, v) \subseteq Vendors \cup MakeLines
<1>1. plan[v].strategy \in Strategies
  BY BasePlanning DEF Plans
<1> QED
  BY <1>1, MissionAssumption DEF Parties, MissionAssumption

LEMMA CallsTyped ==
    ASSUME Base, [Next]_vars
    PROVE  GoodCalls'
<1> DEFINE n == Version'
           Good == call' \in [Calls -> CallStates] /\ \A d \in Calls : GoodCall(call'[d], n)
<1>1. n \in Nat /\ Version \in Nat /\ Version <= n /\ n <= MaxPlans /\ MaxPlans \in Nat
  BY PlansGrow, BasePlanning
<1>2. ASSUME NEW c \in Calls, Leave(c) PROVE Good
  BY <1>1, <1>2, CallSteps
<1>3. ASSUME NEW c \in Calls, NEW x, call' = [call EXCEPT ![c] = x], GoodCall(x, n)
      PROVE  Good
  BY <1>1, <1>3, CallSteps
<1>4. ASSUME UNCHANGED call PROVE Good
  <2>1. \A c \in Calls : GoodCall(call[c], n)
    BY <1>1, CallSteps
  <2> QED
    BY <1>4, <2>1 DEF Base, GoodCalls
<1>5. ASSUME NEW c \in Calls
      PROVE  GoodCall(call[c], n) /\ GoodCall(call[c], Version) /\ call[c] \in CallStates
  BY <1>1, CallSteps DEF Base, GoodCalls
<1> HIDE DEF n
<1>6. ASSUME NEW c \in Calls, Advance(c) \/ Retry(c) PROVE Good
  <2> DEFINE k == call'[c].key
             s == call'[c].seq
             x == [NoCall EXCEPT !.pc = "run", !.key = k, !.seq = s]
  <2>1. /\ call' = [call EXCEPT ![c] = x]
        /\ k \in Range(Arc) /\ s \in Nat /\ (k \in Later => Version >= 1)
    BY <1>6, StartsWell
  <2> HIDE DEF k, s
  <2>2. x.key = k /\ x.pc = "run"
    BY DEF NoCall
  <2>3. x \in CallStates
    <3>1. NoCall \in CallStates
      BY <1>1 DEF NoCall, CallStates
    <3> QED
      BY <2>1, <3>1 DEF CallStates
  <2> HIDE DEF x
  <2>4. GoodCall(x, n)
    BY <1>1, <2>1, <2>2, <2>3 DEF GoodCall
  <2> QED
    BY <1>3, <2>1, <2>4
<1>7. ASSUME NEW c \in Calls, Propose(c) PROVE Good
  <2>1. PICK s \in Strategies : call' = [call EXCEPT ![c].pc = "publish", ![c].choice = s,
                                                     ![c].asks = tier \in AskAt[s]]
    BY <1>7 DEF Propose
  <2> DEFINE asks == tier \in AskAt[s]
             x == [call[c] EXCEPT !.pc = "publish", !.choice = s, !.asks = asks]
  <2>2. call' = [call EXCEPT ![c] = x]
    BY <2>1, <1>5
  <2>3. asks \in BOOLEAN
    OBVIOUS
  <2>4. call[c].key = "strategy"
    BY <1>7 DEF Propose, Running
  <2> HIDE DEF asks
  <2>5. x \in CallStates
    BY <1>5, <2>3 DEF CallStates
  <2>6. x.pc = "publish" /\ x.key = "strategy" /\ x.choice = s
    BY <1>5, <2>4 DEF CallStates
  <2>7. "strategy" \in Range(Arc) /\ "strategy" \notin Later
    BY ArcKeys, CommitmentKeys DEF Later, CommitKeys
  <2> HIDE DEF x
  <2>8. GoodCall(x, n)
    BY <2>5, <2>6, <2>7 DEF GoodCall
  <2> QED
    BY <1>3, <2>2, <2>8
<1>8. ASSUME NEW c \in Calls, Gather(c) PROVE Good
  <2> DEFINE armed == call[c].key = "procure" /\ fault = "armed"
             todo == IF armed THEN {} ELSE Parties(call[c].key, Version)
             x == [call[c] EXCEPT !.pc = "raise", !.version = Version, !.armed = armed,
                                  !.todo = todo]
  <2>1. call[c].key \in DocKinds /\ call' = [call EXCEPT ![c] = x]
    BY <1>8 DEF Gather
  <2>2. call[c].key \in Later
    BY <2>1, CommitmentKeys DEF DocKinds, Later, CommitKeys
  <2>3. Version \in 1 .. Version /\ Version \in 1 .. n /\ Version \in 0 .. MaxPlans
    BY <1>1, <1>5, <2>2 DEF GoodCall
  <2>4. todo \in SUBSET (Vendors \cup MakeLines)
    BY <2>1, <2>3, PartiesTyped
  <2>5. armed \in BOOLEAN
    OBVIOUS
  <2> HIDE DEF todo, armed
  <2>6. x \in CallStates
    BY <1>5, <2>3, <2>4, <2>5 DEF CallStates
  <2>7. x.pc = "raise" /\ x.key = call[c].key /\ x.version = Version
    BY <1>5 DEF CallStates
  <2>8. call[c].key \in Range(Arc) /\ n >= 1
    BY <1>1, <1>5, <1>8, <2>3 DEF GoodCall, Gather
  <2> HIDE DEF x
  <2>9. GoodCall(x, n)
    BY <2>1, <2>3, <2>6, <2>7, <2>8 DEF GoodCall
  <2> QED
    BY <1>3, <2>1, <2>9
<1>9. ASSUME NEW c \in Calls, NEW p \in Vendors \cup MakeLines, Claim(c, p) PROVE Good
  <2> DEFINE x == [call[c] EXCEPT !.pc = "port", !.todo = @ \ {p}, !.choice = p]
  <2>1. call' = [call EXCEPT ![c] = x]
    BY <1>9 DEF Claim
  <2>2. GoodCall(x, n)
    BY <1>5, <1>9 DEF Claim, Raising, GoodCall, CallStates
  <2> HIDE DEF x
  <2> QED
    BY <1>3, <2>1, <2>2
<1>10. ASSUME NEW c \in Calls, NEW p \in Vendors \cup MakeLines, Replay(c, p) PROVE Good
  <2> DEFINE x == [call[c] EXCEPT !.todo = @ \ {p}]
             y == [call[c] EXCEPT !.failed = TRUE]
  <2>1. call' = [call EXCEPT ![c] = x] \/ call' = [call EXCEPT ![c] = y]
    BY <1>10 DEF Replay
  <2>2. GoodCall(x, n) /\ GoodCall(y, n)
    BY <1>5, <1>10 DEF Replay, Raising, GoodCall, CallStates
  <2> HIDE DEF x, y
  <2> QED
    BY <1>3, <2>1, <2>2
<1>11. ASSUME NEW c \in Calls, PortDone(c) \/ PortRefused(c) PROVE Good
  <2> DEFINE x == [call[c] EXCEPT !.pc = "raise"]
             y == [call[c] EXCEPT !.pc = "raise", !.failed = TRUE]
  <2>1. call' = [call EXCEPT ![c] = x] \/ call' = [call EXCEPT ![c] = y]
    BY <1>11 DEF PortDone, PortRefused, Goto
  <2>2. GoodCall(x, n) /\ GoodCall(y, n)
    BY <1>5, <1>11 DEF PortDone, PortRefused, GoodCall, CallStates
  <2> HIDE DEF x, y
  <2> QED
    BY <1>3, <2>1, <2>2
<1>12. ASSUME NEW c \in Calls,
              \/ Crash(c) \/ Observe(c) \/ NoCandidate(c) \/ Publish(c) \/ Critique(c)
              \/ Authorize(c) \/ Reserve(c) \/ Unresolved(c) \/ Record(c) \/ RecordClash(c)
              \/ Watch(c) \/ Close(c) \/ Clash(c)
              \/ \E p \in Vendors \cup MakeLines : Yield(c, p)
       PROVE  Leave(c)
  BY <1>12 DEF Crash, Observe, NoCandidate, Publish, Critique, Authorize, Reserve,
     Unresolved, Record, RecordClash, Watch, Close, Clash, Yield
<1>13. ASSUME Person \/ Disrupt \/ UNCHANGED vars PROVE UNCHANGED call
  BY <1>13 DEF Person, Approve, Reject, TryAnother, SetAutonomy, Upload, ArmFault, Disrupt, vars
<1>14. Good
  BY <1>2, <1>4, <1>6, <1>7, <1>8, <1>9, <1>10, <1>11, <1>12, <1>13 DEF Next, Step
<1> QED
  BY <1>14 DEF GoodCalls, n

\* What the ways of writing and deleting rows leave of their types.
LEMMA RowSteps ==
    ASSUME Base, Version' \in Nat, Version <= Version'
    PROVE  /\ UNCHANGED row => Rows'
           /\ \A gone : DeleteSteps(gone) => Rows'
           /\ \A st \in {"succeeded", "failed"} : row' = Answered(st) => Rows'
           /\ \A c \in Calls, st \in {"succeeded", "failed", "waiting_approval"} :
                 ( /\ WriteStep(c, st) /\ call[c].pc # "idle"
                   /\ call[c].key \in CommitKeys => Version' >= 1 ) => Rows'
<1>1. /\ DOMAIN row \subseteq Nat /\ IsFiniteSet(DOMAIN row)
      /\ \A i \in DOMAIN row : GoodRow(row[i], Version')
  <2>1. Version \in Nat
    BY BasePlanning
  <2> QED
    BY <2>1 DEF Base, Rows, GoodRow
<1>2. ASSUME UNCHANGED row PROVE Rows'
  BY <1>1, <1>2 DEF Rows
<1>3. ASSUME NEW gone, DeleteSteps(gone) PROVE Rows'
  <2>1. /\ DOMAIN row' = {j \in DOMAIN row : ~gone[j]}
        /\ \A i \in DOMAIN row' : i \in DOMAIN row /\ row'[i] = row[i]
    BY <1>3 DEF DeleteSteps
  <2>2. DOMAIN row' \subseteq DOMAIN row
    BY <2>1
  <2>3. IsFiniteSet(DOMAIN row')
    BY <1>1, <2>2, FS_Subset
  <2> QED
    BY <1>1, <2>1, <2>2, <2>3 DEF Rows
<1>4. ASSUME NEW st \in {"succeeded", "failed"}, row' = Answered(st) PROVE Rows'
  <2>1. DOMAIN row' = DOMAIN row
    BY <1>4 DEF Answered
  <2>2. ASSUME NEW i \in DOMAIN row PROVE GoodRow(row'[i], Version')
    <3>1. GoodRow(row[i], Version')
      BY <1>1
    <3>2. row'[i] = [row[i] EXCEPT !.status = st] \/ row'[i] = row[i]
      BY <1>4 DEF Answered
    <3> QED
      BY <3>1, <3>2 DEF GoodRow
  <2> QED
    BY <1>1, <2>1, <2>2 DEF Rows
<1>5. ASSUME NEW c \in Calls, NEW st \in {"succeeded", "failed", "waiting_approval"},
             WriteStep(c, st), call[c].pc # "idle",
             call[c].key \in CommitKeys => Version' >= 1
      PROVE  Rows'
  <2> DEFINE s == call[c].seq
             x == [key |-> call[c].key, status |-> st]
  <2>1. s \in Nat /\ call[c].key \in Range(Arc)
    BY <1>5 DEF Base, GoodCalls, GoodCall, CallStates
  <2>2. GoodRow(x, Version')
    BY <1>5, <2>1 DEF GoodRow
  <2>3. row' = [i \in DOMAIN row \cup {s} |-> IF i = s THEN x ELSE row[i]]
    BY <1>5 DEF WriteStep
  <2> HIDE DEF s, x
  <2>4. /\ DOMAIN row' = DOMAIN row \cup {s}
        /\ \A i \in DOMAIN row' : row'[i] = IF i = s THEN x ELSE row[i]
    BY <2>3
  <2>5. IsFiniteSet(DOMAIN row')
    BY <1>1, <2>4, FS_AddElement
  <2> QED
    BY <1>1, <2>1, <2>2, <2>4, <2>5 DEF Rows
<1> QED
  BY <1>2, <1>3, <1>4, <1>5

\* Every row is that of a step of the arc, and one after the strategy has a plan.
LEMMA RowsTyped ==
    ASSUME Base, [Next]_vars
    PROVE  Rows'
<1>1. Version \in Nat /\ Version' \in Nat /\ Version <= Version'
  BY BasePlanning, PlansGrow
<1>2. ASSUME UNCHANGED row PROVE Rows'
  BY <1>1, <1>2, RowSteps
<1>3. ASSUME NEW gone, DeleteSteps(gone) PROVE Rows'
  BY <1>1, <1>3, RowSteps
<1>4. ASSUME NEW c \in Calls, NEW st \in {"succeeded", "failed", "waiting_approval"},
             WriteStep(c, st), call[c].pc # "idle",
             call[c].key \in CommitKeys => Version' >= 1
      PROVE  Rows'
  BY <1>1, <1>4, RowSteps
<1>5. ASSUME NEW c \in Calls, NEW st \in {"succeeded", "failed", "waiting_approval"},
             WriteStep(c, st), call[c].pc # "idle", call[c].key \in Later
      PROVE  Rows'
  <2>1. Version >= 1
    BY <1>5 DEF Base, GoodCalls, GoodCall
  <2> QED
    BY <1>1, <1>4, <1>5, <2>1
<1>6. ASSUME NEW c \in Calls, Observe(c) PROVE Rows'
  <2>1. call[c].key \notin CommitKeys
    BY <1>6, ArcKeys DEF Observe, Contains, Range
  <2>2. call[c].pc # "idle" /\ (WriteStep(c, "succeeded") \/ WriteStep(c, "failed"))
    BY <1>6 DEF Observe
  <2> QED
    BY <1>4, <2>1, <2>2
<1>7. ASSUME NEW c \in Calls, Publish(c) PROVE Rows'
  <2> DEFINE p == [strategy |-> call[c].choice, asks |-> call[c].asks, superseded |-> "no"]
  <2>1. p \in Plans
    BY <1>7 DEF Publish, Base, GoodCalls, GoodCall, CallStates, Plans
  <2>2. Version' = Version + 1
    <3>1. plan' = Append(plan, p)
      BY <1>7 DEF Publish
    <3> HIDE DEF p
    <3> QED
      BY <2>1, <3>1, BasePlanning, AppendProperties DEF Planning, Version
  <2> QED
    BY <1>1, <1>4, <1>7, <2>2 DEF Publish
<1>8. {"critique", "authorize", "reserve", "watch", "close"} \cup DocKinds \subseteq Later
  BY CommitmentKeys DEF Later, CommitKeys, DocKinds
<1>9. ASSUME NEW c \in Calls,
             Critique(c) \/ Authorize(c) \/ Reserve(c) \/ Watch(c) \/ Close(c)
      PROVE  Rows'
  <2>1. call[c].key \in Later /\ call[c].pc # "idle"
    BY <1>8, <1>9 DEF Critique, Authorize, Reserve, Watch, Close, Running
  <2>2. \/ UNCHANGED row
        \/ \E st \in {"succeeded", "failed", "waiting_approval"} : WriteStep(c, st)
    BY <1>9 DEF Critique, Authorize, Reserve, Watch, Close
  <2> QED
    BY <1>2, <1>5, <2>1, <2>2
<1>10. ASSUME NEW c \in Calls, Unresolved(c) \/ Record(c) PROVE Rows'
  <2>1. call[c].key \in Later /\ call[c].pc # "idle"
    BY <1>8, <1>10 DEF Unresolved, Record, Recording, Raising, Base, GoodCalls, GoodCall
  <2>2. \E st \in {"succeeded", "failed", "waiting_approval"} : WriteStep(c, st)
    BY <1>10 DEF Unresolved, Record
  <2> QED
    BY <1>5, <2>1, <2>2
<1>11. ASSUME NEW c \in Calls, Retry(c) PROVE Rows'
  BY <1>3, <1>11 DEF Retry
<1>12. ASSUME NEW c \in Calls,
              \/ Advance(c) \/ Crash(c) \/ Propose(c) \/ NoCandidate(c) \/ Gather(c)
              \/ PortDone(c) \/ PortRefused(c) \/ RecordClash(c) \/ Clash(c)
              \/ \E p \in Vendors \cup MakeLines : Claim(c, p) \/ Replay(c, p) \/ Yield(c, p)
       PROVE  UNCHANGED row
  BY <1>12 DEF Advance, Crash, Propose, NoCandidate, Gather, PortDone, PortRefused,
     RecordClash, Clash, Claim, Replay, Yield, missionVars
<1>13. ASSUME NEW a \in DOMAIN approval, Approve(a) \/ Reject(a) \/ TryAnother(a) PROVE Rows'
  <2>1. \/ \E st \in {"succeeded", "failed"} : row' = Answered(st)
        \/ \E gone : DeleteSteps(gone)
    BY <1>13 DEF Approve, Reject, TryAnother, Rewind
  <2> QED
    BY <1>1, <1>3, <2>1, RowSteps
<1>14. ASSUME Upload \/ Disrupt \/ \E t \in Tiers : SetAutonomy(t) PROVE Rows'
  <2>1. UNCHANGED row \/ \E gone : DeleteSteps(gone)
    BY <1>14 DEF Upload, Disrupt, SetAutonomy, Rewind
  <2> QED
    BY <1>2, <1>3, <2>1
<1>15. ASSUME ArmFault \/ UNCHANGED vars PROVE UNCHANGED row
  BY <1>15 DEF ArmFault, vars, missionVars
<1> QED
  BY <1>2, <1>6, <1>7, <1>9, <1>10, <1>11, <1>12, <1>13, <1>14, <1>15 DEF Next, Step, Person

\* What is left of the types: the mission, its actions, the keys and documents.
Scalars ==
    /\ status \in Closed \cup Open \cup {"awaiting_approval", "waiting"}
    /\ tier \in Tiers
    /\ action \in [ActionKinds -> [1 .. MaxPlans -> SUBSET {"verified", "failed"}]]
    /\ key \in [Docs -> {"free", "claimed", "done"}] /\ raised \in [Docs -> Nat]
    /\ fault \in {"none", "armed", "fired"}

\* A new outcome stands beside what is left of the old ones.
LEMMA OutcomesAre ==
    ASSUME NEW old \in SUBSET {"verified", "failed"}, NEW w \in {"verified", "failed"},
           NEW rows \in Outcome(old, w)
    PROVE  /\ rows \in SUBSET {"verified", "failed"} /\ w \in rows
           /\ \A x \in rows : x \in old \/ x = w
<1>1. PICK rest \in {old} \cup {old \ {x} : x \in old} : rows = rest \cup {w}
  BY DEF Outcome
<1>2. rest \subseteq old
  BY <1>1
<1> QED
  BY <1>1, <1>2

\* The actions of the kinds and plan versions there are have rows of these statuses,
\* and a call that records its documents adds one.
LEMMA RecordsOutcome ==
    ASSUME Base, NEW c \in Calls, Record(c)
    PROVE  /\ call[c].key \in DocKinds /\ call[c].version \in 1 .. Version
           /\ call[c].version \in 1 .. MaxPlans
           /\ \E holds \in ReadBack(c), rows \in SUBSET {"verified", "failed"} :
                 /\ action' = [action EXCEPT ![call[c].key][call[c].version] = rows]
                 /\ rows # {}
                 /\ ("verified" \in rows) =>
                       holds \/ ("verified" \in action[call[c].key][call[c].version])
                 /\ WriteStep(c, IF holds THEN "succeeded" ELSE "failed")
                 /\ status' = IF holds THEN status ELSE "failed"
<1>1. /\ action \in [ActionKinds -> [1 .. MaxPlans -> SUBSET {"verified", "failed"}]]
      /\ GoodCall(call[c], Version) /\ Version \in Nat /\ Version <= MaxPlans /\ MaxPlans \in Nat
  BY BasePlanning DEF Base, TypeOK, GoodCalls, Planning
<1>2. /\ call[c].key \in DocKinds /\ call[c].version \in 1 .. Version
      /\ call[c].version \in 1 .. MaxPlans
  BY <1>1 DEF Record, Recording, GoodCall
<1>3. PICK k, v : k = call[c].key /\ v = call[c].version
  OBVIOUS
<1>4. PICK holds \in ReadBack(c) :
         /\ \E rows \in Outcome(action[k][v], IF holds THEN "verified" ELSE "failed") :
               action' = [action EXCEPT ![k][v] = rows]
         /\ WriteStep(c, IF holds THEN "succeeded" ELSE "failed")
         /\ status' = IF holds THEN status ELSE "failed"
  BY <1>3 DEF Record
<1>5. PICK w \in {"verified", "failed"} : w = IF holds THEN "verified" ELSE "failed"
  OBVIOUS
<1>6. PICK rows \in Outcome(action[k][v], w) : action' = [action EXCEPT ![k][v] = rows]
  BY <1>4, <1>5
<1>7. action[k][v] \in SUBSET {"verified", "failed"}
  BY <1>1, <1>2, <1>3 DEF ActionKinds
<1>8. /\ rows \in SUBSET {"verified", "failed"} /\ w \in rows
      /\ \A x \in rows : x \in action[k][v] \/ x = w
  BY <1>7, OutcomesAre
<1> QED
  BY <1>2, <1>3, <1>4, <1>5, <1>6, <1>8

LEMMA ScalarsTyped ==
    ASSUME Base, [Next]_vars
    PROVE  Scalars'
<1>1. Scalars
  BY DEF Base, TypeOK, Scalars
<1>2. ASSUME NEW k, NEW v, NEW x \in SUBSET {"verified", "failed"},
             action' = [action EXCEPT ![k][v] = x]
      PROVE  action' \in [ActionKinds -> [1 .. MaxPlans -> SUBSET {"verified", "failed"}]]
  BY <1>1, <1>2 DEF Scalars
<1>3. ASSUME NEW c \in Calls, Record(c) PROVE Scalars'
  <2>1. \E x \in SUBSET {"verified", "failed"} :
            action' = [action EXCEPT ![call[c].key][call[c].version] = x]
    BY <1>3, RecordsOutcome
  <2>2. action' \in [ActionKinds -> [1 .. MaxPlans -> SUBSET {"verified", "failed"}]]
    BY <1>2, <2>1
  <2>3. /\ status' \in {status, "failed"} /\ fault' \in {"fired", fault}
        /\ UNCHANGED <<tier, key, raised>>
    BY <1>3 DEF Record
  <2> QED
    BY <1>1, <2>2, <2>3 DEF Scalars, Closed
<1>4. ASSUME NEW c \in Calls, Reserve(c) PROVE Scalars'
  <2>1. action' \in [ActionKinds -> [1 .. MaxPlans -> SUBSET {"verified", "failed"}]]
    BY <1>1, <1>4, BasePlanning DEF Reserve, Scalars
  <2> QED
    BY <1>1, <1>4, <2>1 DEF Scalars, Reserve, worldVars
<1>5. ASSUME NEW c \in Calls, NEW p \in Vendors \cup MakeLines,
             Claim(c, p) \/ Replay(c, p) \/ Yield(c, p)
      PROVE  Scalars'
  BY <1>1, <1>5 DEF Scalars, Claim, Replay, Yield, missionVars, worldVars
<1>6. ASSUME NEW c \in Calls, PortDone(c) \/ PortRefused(c) \/ Crash(c) PROVE Scalars'
  BY <1>1, <1>6 DEF Scalars, PortDone, PortRefused, Crash, missionVars, worldVars
<1>7. ASSUME NEW c \in Calls,
             \/ Observe(c) \/ Critique(c) \/ Authorize(c) \/ Unresolved(c) \/ Watch(c)
             \/ Close(c) \/ Publish(c)
      PROVE  Scalars'
  BY <1>1, <1>7 DEF Scalars, Observe, Critique, Authorize, Unresolved, Watch, Close,
     Publish, worldVars, Closed, Open
<1>8. ASSUME NEW c \in Calls,
             \/ Advance(c) \/ Propose(c) \/ NoCandidate(c) \/ Gather(c) \/ RecordClash(c)
             \/ Clash(c)
      PROVE  Scalars'
  BY <1>1, <1>8 DEF Scalars, Advance, Propose, NoCandidate, Gather, RecordClash, Clash,
     missionVars, worldVars
<1>9. ASSUME NEW c \in Calls, Retry(c) PROVE Scalars'
  <2>1. status' \in Open /\ UNCHANGED <<tier, action, key, raised, fault>>
    BY <1>9 DEF Retry, Open
  <2> QED
    BY <1>1, <2>1 DEF Scalars
<1>10. ASSUME Person \/ Disrupt \/ UNCHANGED vars PROVE Scalars'
  <2>1. ASSUME NEW a, Approve(a) \/ Reject(a) \/ TryAnother(a) PROVE Scalars'
    BY <1>1, <2>1 DEF Scalars, Approve, Reject, TryAnother, worldVars, Closed, Open
  <2>2. ASSUME NEW t \in Tiers, SetAutonomy(t) PROVE Scalars'
    BY <1>1, <2>2 DEF Scalars, SetAutonomy, Open
  <2>3. ASSUME Upload \/ ArmFault \/ Disrupt \/ UNCHANGED vars PROVE Scalars'
    BY <1>1, <2>3 DEF Scalars, Upload, ArmFault, Disrupt, Open, vars, missionVars, worldVars
  <2> QED
    BY <1>10, <2>1, <2>2, <2>3 DEF Person
<1> QED
  BY <1>3, <1>4, <1>5, <1>6, <1>7, <1>8, <1>9, <1>10 DEF Next, Step

LEMMA BaseInitially ==
    Init => Base
<1> SUFFICES ASSUME Init PROVE Base
  OBVIOUS
<1>1. MaxPlans \in Nat /\ StartTier \in Tiers
  BY MissionAssumption DEF MissionAssumption
<1>2. row = << >> /\ plan = << >> /\ approval = << >> /\ Version = 0
  BY DEF Init, Version
<1>3. DOMAIN row = {} /\ IsFiniteSet(DOMAIN row)
  BY <1>2, FS_EmptySet
<1>4. Rows
  BY <1>3 DEF Rows
<1>5. NoCall \in CallStates
  BY <1>1 DEF NoCall, CallStates
<1>6. "none" \notin Later
  BY CommitmentKeys DEF Later, CommitKeys
<1>7. GoodCall(NoCall, 0)
  BY <1>5, <1>6 DEF GoodCall, NoCall
<1>8. call = [c \in Calls |-> NoCall]
  BY DEF Init
<1>9. GoodCalls
  <2> HIDE DEF NoCall
  <2> QED
    BY <1>2, <1>5, <1>7, <1>8 DEF GoodCalls
<1>10. Scalars
  BY <1>1 DEF Init, Scalars, Open
<1>11. TypeOK
  <2>1. plan \in Seq(Plans) /\ approval \in Seq([version : 1 .. Version, decision : Decisions])
    BY <1>2
  <2> QED
    BY <1>1, <1>2, <1>3, <1>9, <1>10, <2>1 DEF TypeOK, GoodCalls, Scalars, Plans
<1> QED
  BY <1>4, <1>9, <1>11 DEF Base

LEMMA BaseNext ==
    Base /\ [Next]_vars => Base'
<1> SUFFICES ASSUME Base, [Next]_vars PROVE Base'
  OBVIOUS
<1>1. plan' \in Seq(Plans) /\ Version' <= MaxPlans
  <2>1. plan' \in Seq(Plans) /\ Version' \in Version .. MaxPlans
    BY PlansGrow
  <2> QED
    BY <2>1, BasePlanning
<1>2. approval' \in Seq([version : 1 .. Version', decision : Decisions])
  BY ApprovalsTyped
<1>3. GoodCalls' /\ Rows' /\ Scalars'
  BY CallsTyped, RowsTyped, ScalarsTyped
<1>4. \A i \in DOMAIN row' :
          row'[i] \in [key : Range(Arc), status : {"succeeded", "failed", "waiting_approval"}]
  BY <1>3 DEF Rows, GoodRow
<1>5. TypeOK'
  BY <1>1, <1>2, <1>3, <1>4 DEF TypeOK, Rows, GoodCalls, Scalars, Plans
<1> QED
  BY <1>3, <1>5 DEF Base

LEMMA BaseAlways ==
    Spec => []Base
<1> QED
  BY BaseInitially, BaseNext, PTL DEF Spec

\* Whatever calls, people and the world do to a mission, its rows, plans,
\* approvals, actions, keys and calls keep their types.
THEOREM TypeCorrect ==
    Spec => []TypeOK
<1>1. Base => TypeOK
  BY DEF Base
<1> QED
  BY <1>1, BaseAlways, PTL

-----------------------------------------------------------------------------
(***************************************************************************)
(* Once per key.  A call at the port holds the key of its document, which  *)
(* has not been raised; a key that is free was never raised under, and one *)
(* that is done was raised under exactly once.                             *)
(***************************************************************************)
Engaged == {"raise", "port"}
Fit(x) ==
    x.pc \in Engaged =>
        /\ x.todo \subseteq Parties(x.key, x.version)
        /\ x.pc = "port" => x.choice \in Parties(x.key, x.version)
InFlight == \A c \in Calls : Fit(call[c])
DocOf(x) == <<x.key, x.version, x.choice>>
OneKey ==
    /\ \A d \in Docs : /\ key[d] = "free" => raised[d] = 0
                       /\ key[d] = "done" => raised[d] = 1
                       /\ raised[d] \in {0, 1}
    /\ \A c \in Calls : call[c].pc = "port" =>
          key[DocOf(call[c])] = "claimed" /\ raised[DocOf(call[c])] = 0
    /\ \A c, d \in Calls : c # d /\ call[c].pc = "port" /\ call[d].pc = "port" =>
          DocOf(call[c]) # DocOf(call[d])

\* A step that raises nothing and claims nothing.
Quiet ==
    /\ UNCHANGED <<key, raised>>
    /\ \A c \in Calls : call'[c] = call[c] \/ call'[c].pc \notin Engaged
CrashAfter(c) ==
    /\ Crash(c) /\ call[c].pc = "port"
    /\ raised' = [raised EXCEPT ![DocOf(call[c])] = @ + 1]

LEMMA QuietSteps ==
    ASSUME Base, [Next]_vars
    PROVE  \/ Quiet
           \/ \E c \in Calls : \/ Gather(c) \/ PortDone(c) \/ PortRefused(c) \/ CrashAfter(c)
                               \/ \E p \in Vendors \cup MakeLines : Claim(c, p) \/ Replay(c, p)
<1>1. call \in [Calls -> CallStates]
  BY DEF Base, GoodCalls
<1>2. ASSUME NEW c \in Calls, Leave(c), UNCHANGED <<key, raised>> PROVE Quiet
  <2>1. \A d \in Calls : call'[d] = IF d = c THEN NoCall ELSE call[d]
    BY <1>1, <1>2 DEF Leave
  <2>2. NoCall.pc \notin Engaged
    BY DEF NoCall, Engaged
  <2> QED
    BY <1>2, <2>1, <2>2 DEF Quiet
<1>3. ASSUME NEW c \in Calls, Crash(c) PROVE Quiet \/ CrashAfter(c)
  BY <1>2, <1>3 DEF Crash, CrashAfter, Doc, DocOf
<1>4. ASSUME NEW c \in Calls,
             \/ Observe(c) \/ NoCandidate(c) \/ Publish(c) \/ Critique(c)
             \/ Authorize(c) \/ Reserve(c) \/ Unresolved(c) \/ Record(c) \/ RecordClash(c)
             \/ Watch(c) \/ Close(c) \/ Clash(c)
             \/ \E p \in Vendors \cup MakeLines : Yield(c, p)
      PROVE  Quiet
  <2>1. Leave(c) /\ UNCHANGED <<key, raised>>
    BY <1>4 DEF Observe, NoCandidate, Publish, Critique, Authorize, Reserve,
       Unresolved, Record, RecordClash, Watch, Close, Clash, Yield
  <2> QED
    BY <1>2, <2>1
<1>5. ASSUME NEW c \in Calls, Advance(c) \/ Retry(c) PROVE Quiet
  <2> DEFINE k == call'[c].key
             s == call'[c].seq
             x == [NoCall EXCEPT !.pc = "run", !.key = k, !.seq = s]
  <2>1. /\ call' = [call EXCEPT ![c] = x]
        /\ k \in Range(Arc) /\ s \in Nat /\ (k \in Later => Version >= 1)
    BY <1>5, StartsWell
  <2>2. x.pc \notin Engaged
    BY DEF NoCall, Engaged
  <2>3. UNCHANGED <<key, raised>>
    BY <1>5 DEF Advance, Retry
  <2> HIDE DEF x
  <2>4. \A d \in Calls : call'[d] = IF d = c THEN x ELSE call[d]
    BY <1>1, <2>1
  <2> QED
    BY <2>2, <2>3, <2>4 DEF Quiet
<1>6. ASSUME NEW c \in Calls, Propose(c) PROVE Quiet
  <2>1. \A d \in Calls : call'[d] = call[d] \/ call'[d].pc = "publish"
    BY <1>1, <1>6 DEF Propose, CallStates
  <2> QED
    BY <1>6, <2>1 DEF Propose, Quiet, Engaged
<1>7. ASSUME Person \/ Disrupt \/ UNCHANGED vars PROVE Quiet
  BY <1>7 DEF Quiet, Person, Approve, Reject, TryAnother, SetAutonomy, Upload, ArmFault,
     Disrupt, vars
<1> QED
  BY <1>3, <1>4, <1>5, <1>6, <1>7 DEF Next, Step

\* A call that is raising has a document for each of its parties.
LEMMA DocsOfCalls ==
    ASSUME Base, InFlight, NEW c \in Calls, call[c].pc \in Engaged
    PROVE  /\ \A p \in Parties(call[c].key, call[c].version) : Doc(c, p) \in Docs
           /\ call[c].pc = "port" => DocOf(call[c]) \in Docs
<1> DEFINE k == call[c].key
           v == call[c].version
<1>1. k \in DocKinds /\ v \in 1 .. Version /\ v \in 1 .. MaxPlans
  <2>1. k \in DocKinds /\ v \in 1 .. Version
    BY DEF Base, GoodCalls, GoodCall, Engaged
  <2> QED
    BY <2>1, BasePlanning DEF Planning
<1>2. plan[v].strategy \in Strategies
  BY <1>1, BasePlanning DEF Plans
<1>3. ASSUME NEW p \in Parties(k, v) PROVE <<k, v, p>> \in Docs
  <2>1. p \in IF k = "procure" THEN Vendors ELSE MakeLines
    BY <1>2, MissionAssumption DEF Parties, MissionAssumption
  <2> HIDE DEF k, v
  <2> QED
    BY <1>1, <2>1 DEF Docs
<1>4. call[c].pc = "port" => call[c].choice \in Parties(k, v)
  BY DEF InFlight, Fit
<1> QED
  BY <1>3, <1>4 DEF Doc, DocOf

\* Calls raise for parties of their plan only, since plans do not change.
LEMMA InFlightKept ==
    ASSUME Base, InFlight, [Next]_vars
    PROVE  InFlight'
<1> DEFINE F(x) == x.pc \in Engaged =>
               /\ x.todo \subseteq IF x.key = "procure"
                                   THEN Sources[plan'[x.version].strategy] ELSE MakeLines
               /\ x.pc = "port" =>
                     x.choice \in IF x.key = "procure"
                                  THEN Sources[plan'[x.version].strategy] ELSE MakeLines
<1>1. call \in [Calls -> CallStates]
      /\ \A c \in Calls : GoodCall(call[c], Version)
  BY DEF Base, GoodCalls
<1>2. ASSUME NEW x, GoodCall(x, Version), Fit(x) PROVE F(x)
  <2>1. x.pc \in Engaged => plan'[x.version].strategy = plan[x.version].strategy
    BY <1>2, PlansGrow DEF GoodCall, Engaged
  <2> QED
    BY <1>2, <2>1 DEF Fit, Parties
<1>3. \A c \in Calls : F(call[c])
  BY <1>1, <1>2 DEF InFlight
<1>4. ASSUME \A c \in Calls : F(call'[c]) PROVE InFlight'
  BY <1>4 DEF InFlight, Fit, Parties
<1> HIDE DEF F
<1>5. ASSUME NEW c \in Calls, NEW x, call' = [call EXCEPT ![c] = x], F(x) PROVE InFlight'
  <2>1. \A d \in Calls : call'[d] = IF d = c THEN x ELSE call[d]
    BY <1>1, <1>5
  <2> QED
    BY <1>3, <1>4, <1>5, <2>1
<1>6. CASE Quiet
  <2>1. ASSUME NEW c \in Calls PROVE F(call'[c])
    <3>1. call'[c].pc \notin Engaged => F(call'[c])
      BY DEF F
    <3> QED
      BY <1>3, <1>6, <3>1 DEF Quiet
  <2> QED
    BY <1>4, <2>1
<1>7. ASSUME NEW c \in Calls, Gather(c) PROVE InFlight'
  <2> DEFINE armed == call[c].key = "procure" /\ fault = "armed"
             todo == IF armed THEN {} ELSE Parties(call[c].key, Version)
             x == [call[c] EXCEPT !.pc = "raise", !.version = Version, !.armed = armed,
                                  !.todo = todo]
  <2>1. call' = [call EXCEPT ![c] = x] /\ UNCHANGED plan
    BY <1>7 DEF Gather, missionVars
  <2>2. todo \subseteq Parties(call[c].key, Version)
    OBVIOUS
  <2> HIDE DEF todo, armed
  <2>3. x.pc = "raise" /\ x.todo = todo /\ x.key = call[c].key /\ x.version = Version
    BY <1>1 DEF CallStates
  <2> HIDE DEF x
  <2>4. F(x)
    BY <2>1, <2>2, <2>3 DEF F, Parties
  <2> QED
    BY <1>5, <2>1, <2>4
<1>8. ASSUME NEW c \in Calls, NEW p, Claim(c, p) PROVE InFlight'
  <2> DEFINE x == [call[c] EXCEPT !.pc = "port", !.todo = @ \ {p}, !.choice = p]
  <2>1. call' = [call EXCEPT ![c] = x] /\ call[c].pc = "raise" /\ p \in call[c].todo
    BY <1>8 DEF Claim, Raising
  <2>2. /\ x.todo = call[c].todo \ {p} /\ x.choice = p
        /\ x.key = call[c].key /\ x.version = call[c].version
    BY <1>1 DEF CallStates
  <2>3. F(call[c])
    BY <1>3
  <2> HIDE DEF x
  <2>4. F(x)
    BY <2>1, <2>2, <2>3 DEF F, Engaged
  <2> QED
    BY <1>5, <2>1, <2>4
<1>9. ASSUME NEW c \in Calls, NEW p, Replay(c, p) PROVE InFlight'
  <2> DEFINE x == [call[c] EXCEPT !.todo = @ \ {p}]
             y == [call[c] EXCEPT !.failed = TRUE]
  <2>1. /\ call' = [call EXCEPT ![c] = x] \/ call' = [call EXCEPT ![c] = y]
        /\ call[c].pc = "raise"
    BY <1>9 DEF Replay, Raising
  <2>2. /\ x.todo = call[c].todo \ {p} /\ x.pc = call[c].pc
        /\ x.key = call[c].key /\ x.version = call[c].version
    BY <1>1 DEF CallStates
  <2>3. /\ y.todo = call[c].todo /\ y.pc = call[c].pc
        /\ y.key = call[c].key /\ y.version = call[c].version
    BY <1>1 DEF CallStates
  <2>4. F(call[c])
    BY <1>3
  <2> HIDE DEF x, y
  <2>5. F(x) /\ F(y)
    BY <2>1, <2>2, <2>3, <2>4 DEF F, Engaged
  <2> QED
    BY <1>5, <2>1, <2>5
<1>10. ASSUME NEW c \in Calls, PortDone(c) \/ PortRefused(c) PROVE InFlight'
  <2> DEFINE x == [call[c] EXCEPT !.pc = "raise"]
             y == [call[c] EXCEPT !.pc = "raise", !.failed = TRUE]
  <2>1. /\ call' = [call EXCEPT ![c] = x] \/ call' = [call EXCEPT ![c] = y]
        /\ call[c].pc = "port"
    BY <1>10 DEF PortDone, PortRefused, Goto
  <2>2. /\ x.todo = call[c].todo /\ x.pc = "raise"
        /\ x.key = call[c].key /\ x.version = call[c].version
    BY <1>1 DEF CallStates
  <2>3. /\ y.todo = call[c].todo /\ y.pc = "raise"
        /\ y.key = call[c].key /\ y.version = call[c].version
    BY <1>1 DEF CallStates
  <2>4. F(call[c])
    BY <1>3
  <2> HIDE DEF x, y
  <2>5. F(x) /\ F(y)
    BY <2>1, <2>2, <2>3, <2>4 DEF F, Engaged
  <2> QED
    BY <1>5, <2>1, <2>5
<1>11. ASSUME NEW c \in Calls, CrashAfter(c) PROVE InFlight'
  <2>1. call' = [call EXCEPT ![c] = NoCall]
    BY <1>11 DEF CrashAfter, Crash, Leave
  <2>2. F(NoCall)
    BY DEF F, NoCall, Engaged
  <2> QED
    BY <1>5, <2>1, <2>2
<1> QED
  BY <1>6, <1>7, <1>8, <1>9, <1>10, <1>11, QuietSteps

\* What is left when one document changes and the others, and the calls that
\* stay at the port, do not.
LEMMA OneKeyKept ==
    ASSUME Base, InFlight, OneKey, [Next]_vars
    PROVE  OneKey'
<1> DEFINE Sound(k, n) == /\ k = "free" => n = 0
                          /\ k = "done" => n = 1
                          /\ n \in {0, 1}
           D(c) == DocOf(call[c])
<1>1. /\ call \in [Calls -> CallStates]
      /\ key \in [Docs -> {"free", "claimed", "done"}] /\ raised \in [Docs -> Nat]
  BY DEF Base, TypeOK
<1>2. \A d \in Docs : Sound(key[d], raised[d])
  BY DEF OneKey
<1>3. \A c \in Calls : call[c].pc = "port" =>
          D(c) \in Docs /\ key[D(c)] = "claimed" /\ raised[D(c)] = 0
  <2>1. ASSUME NEW c \in Calls, call[c].pc = "port" PROVE D(c) \in Docs
    BY <2>1, DocsOfCalls DEF Engaged
  <2> QED
    BY <2>1 DEF OneKey
<1>4. \A c, d \in Calls : c # d /\ call[c].pc = "port" /\ call[d].pc = "port" => D(c) # D(d)
  BY DEF OneKey
<1>5. ASSUME UNCHANGED <<key, raised>>,
             \A d \in Calls : call'[d].pc = "port" => call'[d] = call[d]
      PROVE  OneKey'
  <2>1. \A d \in Docs : key'[d] = key[d] /\ raised'[d] = raised[d]
    BY <1>5
  <2>2. \A d \in Calls : call'[d].pc = "port" =>
            key'[DocOf(call'[d])] = "claimed" /\ raised'[DocOf(call'[d])] = 0
    BY <1>3, <1>5
  <2>3. \A c, d \in Calls : c # d /\ call'[c].pc = "port" /\ call'[d].pc = "port" =>
            DocOf(call'[c]) # DocOf(call'[d])
    BY <1>4, <1>5
  <2> QED
    BY <1>2, <2>1, <2>2, <2>3 DEF OneKey
<1>6. ASSUME NEW c \in Calls, call[c].pc = "port",
             NEW x, call' = [call EXCEPT ![c] = x], x.pc # "port",
             NEW k \in {"free", "claimed", "done"}, NEW n \in Nat, Sound(k, n),
             key' = [key EXCEPT ![D(c)] = k], raised' = [raised EXCEPT ![D(c)] = n]
      PROVE  OneKey'
  <2>1. \A d \in Calls : call'[d] = IF d = c THEN x ELSE call[d]
    BY <1>1, <1>6
  <2>2. D(c) \in Docs
    BY <1>3, <1>6
  <2>3. \A d \in Docs : /\ key'[d] = IF d = D(c) THEN k ELSE key[d]
                        /\ raised'[d] = IF d = D(c) THEN n ELSE raised[d]
    BY <1>1, <1>6
  <2>4. \A d \in Docs : Sound(key'[d], raised'[d])
    BY <1>2, <1>6, <2>3
  <2>5. \A d \in Calls : call'[d].pc = "port" => d # c /\ call'[d] = call[d]
    BY <1>6, <2>1
  <2>6. \A d \in Calls : call'[d].pc = "port" => D(d) \in Docs /\ D(d) # D(c)
    BY <1>3, <1>4, <1>6, <2>5
  <2> HIDE DEF D
  <2>7. \A d \in Calls : call'[d].pc = "port" => key'[D(d)] = "claimed" /\ raised'[D(d)] = 0
    BY <1>3, <2>3, <2>5, <2>6
  <2>8. \A d \in Calls : call'[d].pc = "port" => DocOf(call'[d]) = D(d)
    BY <2>5 DEF D
  <2>9. \A d, e \in Calls : d # e /\ call'[d].pc = "port" /\ call'[e].pc = "port" => D(d) # D(e)
    BY <1>4, <2>5
  <2> QED
    BY <2>4, <2>7, <2>8, <2>9 DEF OneKey
<1>7. CASE Quiet
  BY <1>5, <1>7 DEF Quiet, Engaged
<1>8. ASSUME NEW c \in Calls, Gather(c) \/ (\E p : Replay(c, p)) PROVE OneKey'
  <2>1. \A d \in Calls : call'[d] = call[d] \/ call'[d].pc = "raise"
    BY <1>1, <1>8 DEF Gather, Replay, Raising, CallStates
  <2> QED
    BY <1>5, <1>8, <2>1 DEF Gather, Replay
<1>9. ASSUME NEW c \in Calls, NEW p, Claim(c, p) PROVE OneKey'
  <2> DEFINE x == [call[c] EXCEPT !.pc = "port", !.todo = @ \ {p}, !.choice = p]
             d == Doc(c, p)
  <2>1. /\ call' = [call EXCEPT ![c] = x] /\ key[d] = "free"
        /\ key' = [key EXCEPT ![d] = "claimed"] /\ UNCHANGED raised
        /\ call[c].pc = "raise" /\ p \in call[c].todo
    BY <1>9 DEF Claim, Raising
  <2>2. d \in Docs
    <3>1. p \in Parties(call[c].key, call[c].version)
      BY <2>1 DEF InFlight, Fit, Engaged
    <3> QED
      BY <2>1, <3>1, DocsOfCalls DEF Engaged
  <2>3. DocOf(x) = d /\ x.pc = "port"
    BY <1>1 DEF CallStates, Doc, DocOf
  <2> HIDE DEF x, d
  <2>4. \A e \in Calls : call'[e] = IF e = c THEN x ELSE call[e]
    BY <1>1, <2>1
  <2>5. \A f \in Docs : key'[f] = IF f = d THEN "claimed" ELSE key[f]
    BY <1>1, <2>1
  <2>6. raised[d] = 0
    BY <1>2, <2>1, <2>2
  <2>7. \A f \in Docs : Sound(key'[f], raised'[f])
    BY <1>2, <2>1, <2>5
  <2>8. \A e \in Calls : e # c /\ call'[e].pc = "port" =>
            D(e) \in Docs /\ key[D(e)] = "claimed" /\ D(e) # d /\ DocOf(call'[e]) = D(e)
    BY <1>3, <2>1, <2>4
  <2>9. \A e \in Calls : call'[e].pc = "port" =>
            key'[DocOf(call'[e])] = "claimed" /\ raised'[DocOf(call'[e])] = 0
    <3> HIDE DEF D
    <3>1. \A e \in Calls : e # c /\ call'[e].pc = "port" => raised[D(e)] = 0
      BY <1>3, <2>4
    <3> QED
      BY <2>1, <2>2, <2>3, <2>4, <2>5, <2>6, <2>8, <3>1
  <2>10. \A e, f \in Calls : e # f /\ call'[e].pc = "port" /\ call'[f].pc = "port" =>
            DocOf(call'[e]) # DocOf(call'[f])
    <3> HIDE DEF D
    <3>1. \A e, f \in Calls : e # f /\ e # c /\ f # c /\ call'[e].pc = "port"
                              /\ call'[f].pc = "port" => D(e) # D(f)
      BY <1>4, <2>4
    <3> QED
      BY <2>3, <2>4, <2>8, <3>1
  <2> QED
    BY <2>7, <2>9, <2>10 DEF OneKey
<1>10. ASSUME NEW c \in Calls, PortDone(c) PROVE OneKey'
  <2> DEFINE x == [call[c] EXCEPT !.pc = "raise"]
  <2>1. /\ call[c].pc = "port" /\ call' = [call EXCEPT ![c] = x]
        /\ key' = [key EXCEPT ![D(c)] = "done"]
        /\ raised' = [raised EXCEPT ![D(c)] = @ + 1]
    BY <1>10 DEF PortDone, Goto, Doc, DocOf
  <2>2. raised' = [raised EXCEPT ![D(c)] = 1]
    <3>1. D(c) \in Docs /\ raised[D(c)] = 0
      BY <1>3, <2>1
    <3> HIDE DEF D
    <3> QED
      BY <2>1, <3>1
  <2>3. x.pc # "port"
    BY <1>1 DEF CallStates
  <2>4. Sound("done", 1)
    OBVIOUS
  <2> HIDE DEF x, D, Sound
  <2> QED
    BY <1>6, <2>1, <2>2, <2>3, <2>4
<1>11. ASSUME NEW c \in Calls, PortRefused(c) PROVE OneKey'
  <2> DEFINE x == [call[c] EXCEPT !.pc = "raise", !.failed = TRUE]
  <2>1. /\ call[c].pc = "port" /\ call' = [call EXCEPT ![c] = x]
        /\ key' = [key EXCEPT ![D(c)] = "free"] /\ UNCHANGED raised
    BY <1>11 DEF PortRefused, Doc, DocOf
  <2>2. raised' = [raised EXCEPT ![D(c)] = 0]
    BY <1>1, <1>3, <2>1
  <2>3. x.pc # "port"
    BY <1>1 DEF CallStates
  <2>4. Sound("free", 0)
    OBVIOUS
  <2> HIDE DEF x, D, Sound
  <2> QED
    BY <1>6, <2>1, <2>2, <2>3, <2>4
<1>12. ASSUME NEW c \in Calls, CrashAfter(c) PROVE OneKey'
  <2>1. /\ call[c].pc = "port" /\ call' = [call EXCEPT ![c] = NoCall] /\ UNCHANGED key
        /\ raised' = [raised EXCEPT ![D(c)] = @ + 1]
    BY <1>12 DEF CrashAfter, Crash, Leave
  <2>2. raised' = [raised EXCEPT ![D(c)] = 1]
    <3>1. D(c) \in Docs /\ raised[D(c)] = 0
      BY <1>3, <2>1
    <3> HIDE DEF D
    <3> QED
      BY <2>1, <3>1
  <2>3. key' = [key EXCEPT ![D(c)] = "claimed"]
    BY <1>1, <1>3, <2>1
  <2>4. NoCall.pc # "port"
    BY DEF NoCall
  <2>5. Sound("claimed", 1)
    OBVIOUS
  <2> HIDE DEF D, Sound
  <2> QED
    BY <1>6, <2>1, <2>2, <2>3, <2>4, <2>5
<1> QED
  BY <1>7, <1>8, <1>9, <1>10, <1>11, <1>12, QuietSteps

Keyed == Base /\ InFlight /\ OneKey

LEMMA KeyedInitially ==
    Init => Keyed
<1> SUFFICES ASSUME Init PROVE Keyed
  OBVIOUS
<1>1. \A c \in Calls : call[c].pc = "idle"
  BY DEF Init, NoCall
<1>2. InFlight
  BY <1>1 DEF InFlight, Fit, Engaged
<1>3. OneKey
  BY <1>1 DEF Init, OneKey
<1> QED
  BY <1>2, <1>3, BaseInitially DEF Keyed

LEMMA KeyedNext ==
    Keyed /\ [Next]_vars => Keyed'
<1> QED
  BY BaseNext, InFlightKept, OneKeyKept DEF Keyed

\* A vendor is sent one order and a line one work order per plan, however many
\* calls run the step, and whatever crashes, retries and changes come between.
THEOREM DocumentsOnce ==
    Spec => []RaisedOnce
<1>1. Keyed => RaisedOnce
  BY DEF Keyed, OneKey, RaisedOnce
<1> QED
  BY <1>1, KeyedInitially, KeyedNext, PTL DEF Spec

-----------------------------------------------------------------------------
(***************************************************************************)
(* Verified is real.  While a call raises without a failure or a fault,    *)
(* every party it has dealt with has its document, so when none is left    *)
(* to deal with, all have.                                                 *)
(***************************************************************************)
Covered(x) ==
    x.pc \in Engaged /\ ~x.failed /\ ~x.armed =>
        \A p \in Parties(x.key, x.version) :
            \/ p \in x.todo
            \/ x.pc = "port" /\ p = x.choice
            \/ raised[<<x.key, x.version, p>>] = 1
AllCovered == \A c \in Calls : Covered(call[c])
Proven ==
    \A k \in DocKinds, v \in 1 .. MaxPlans : "verified" \in action[k][v] =>
        /\ v <= Version
        /\ \A p \in Parties(k, v) : raised[<<k, v, p>>] = 1

\* A document that stands is never taken back.
LEMMA RaisedStays ==
    ASSUME Keyed, [Next]_vars
    PROVE  \A d \in Docs : raised[d] = 1 => raised'[d] = 1
<1>1. /\ raised \in [Docs -> Nat] /\ \A d \in Docs : raised[d] \in {0, 1}
      /\ \A d \in Docs : raised'[d] \in {0, 1}
  BY BaseNext, InFlightKept, OneKeyKept DEF Keyed, OneKey, Base, TypeOK
<1>2. UNCHANGED raised \/ \E e : raised' = [raised EXCEPT ![e] = @ + 1]
  BY QuietSteps DEF Keyed, Quiet, Gather, PortDone, PortRefused, CrashAfter, Claim, Replay
<1>3. ASSUME NEW e, raised' = [raised EXCEPT ![e] = @ + 1], NEW d \in Docs, raised[d] = 1
      PROVE  raised'[d] = 1
  <2>1. raised'[d] = IF d = e THEN raised[d] + 1 ELSE raised[d]
    BY <1>1, <1>3
  <2> QED
    BY <1>1, <1>3, <2>1
<1> QED
  BY <1>1, <1>2, <1>3

\* The parties of a plan stay the same, and so do their documents.
LEMMA PartiesStay ==
    ASSUME Keyed, [Next]_vars, NEW k \in DocKinds, NEW v \in 1 .. Version,
           NEW p \in IF k = "procure" THEN Sources[plan'[v].strategy] ELSE MakeLines
    PROVE  /\ p \in Parties(k, v) /\ <<k, v, p>> \in Docs
           /\ raised[<<k, v, p>>] = 1 => raised'[<<k, v, p>>] = 1
<1>1. p \in Parties(k, v)
  BY PlansGrow DEF Keyed, Parties
<1>2. plan[v].strategy \in Strategies /\ v \in 1 .. MaxPlans
  BY BasePlanning DEF Keyed, Plans, Planning
<1>3. p \in IF k = "procure" THEN Vendors ELSE MakeLines
  BY <1>1, <1>2, MissionAssumption DEF Parties, MissionAssumption
<1>4. <<k, v, p>> \in Docs
  BY <1>2, <1>3 DEF Docs
<1> QED
  BY <1>1, <1>4, RaisedStays

\* A call goes on being covered, whatever it and the others do.
LEMMA CoveredKept ==
    ASSUME Keyed, AllCovered, [Next]_vars
    PROVE  AllCovered'
<1> DEFINE P(k, v) == IF k = "procure" THEN Sources[plan'[v].strategy] ELSE MakeLines
           Left(x, p) == p \in x.todo \/ (x.pc = "port" /\ p = x.choice)
           Clear(x) == x.pc \in Engaged /\ ~x.failed /\ ~x.armed
           G(x) == Clear(x) => \A p \in P(x.key, x.version) :
                                  Left(x, p) \/ raised'[<<x.key, x.version, p>>] = 1
<1>1. call \in [Calls -> CallStates] /\ raised \in [Docs -> Nat]
  BY DEF Keyed, Base, TypeOK
<1>2. ASSUME \A c \in Calls : G(call'[c]) PROVE AllCovered'
  BY <1>2 DEF AllCovered, Covered, Parties
<1>3. ASSUME NEW c \in Calls, call[c].pc \in Engaged
      PROVE  call[c].key \in DocKinds /\ call[c].version \in 1 .. Version
  BY <1>3 DEF Keyed, Base, GoodCalls, GoodCall, Engaged
<1>4. ASSUME NEW c \in Calls, Clear(call[c]), NEW p \in P(call[c].key, call[c].version)
      PROVE  Left(call[c], p) \/ raised'[<<call[c].key, call[c].version, p>>] = 1
  <2>1. /\ p \in Parties(call[c].key, call[c].version)
        /\ raised[<<call[c].key, call[c].version, p>>] = 1
              => raised'[<<call[c].key, call[c].version, p>>] = 1
    BY <1>3, <1>4, PartiesStay
  <2> QED
    BY <1>4, <2>1 DEF AllCovered, Covered
<1>5. \A c \in Calls : G(call[c])
  BY <1>4
<1> HIDE DEF G
<1>6. ASSUME NEW c \in Calls, NEW x, call' = [call EXCEPT ![c] = x], G(x) PROVE AllCovered'
  <2>1. \A d \in Calls : call'[d] = IF d = c THEN x ELSE call[d]
    BY <1>1, <1>6
  <2> QED
    BY <1>2, <1>5, <1>6, <2>1
<1>7. ASSUME NEW c \in Calls, call[c].pc \in Engaged, NEW x,
             x.key = call[c].key, x.version = call[c].version,
             Clear(x) => Clear(call[c]),
             \A p \in P(x.key, x.version) : Left(call[c], p) =>
                Left(x, p) \/ raised'[<<x.key, x.version, p>>] = 1
      PROVE  G(x)
  BY <1>4, <1>7 DEF G
<1>8. CASE Quiet
  <2>1. ASSUME NEW c \in Calls PROVE G(call'[c])
    <3>1. call'[c].pc \notin Engaged => G(call'[c])
      BY DEF G
    <3> QED
      BY <1>5, <1>8, <3>1 DEF Quiet
  <2> QED
    BY <1>2, <2>1
<1>9. ASSUME NEW c \in Calls, Gather(c) PROVE AllCovered'
  <2> DEFINE armed == call[c].key = "procure" /\ fault = "armed"
             todo == IF armed THEN {} ELSE Parties(call[c].key, Version)
             x == [call[c] EXCEPT !.pc = "raise", !.version = Version, !.armed = armed,
                                  !.todo = todo]
  <2>1. call' = [call EXCEPT ![c] = x] /\ UNCHANGED plan
    BY <1>9 DEF Gather, missionVars
  <2>2. ~armed => todo = P(call[c].key, Version)
    BY <2>1 DEF Parties
  <2> HIDE DEF todo, armed
  <2>3. x.armed = armed /\ x.todo = todo /\ x.key = call[c].key /\ x.version = Version
    BY <1>1 DEF CallStates
  <2> HIDE DEF x
  <2>4. G(x)
    BY <2>2, <2>3 DEF G
  <2> QED
    BY <1>6, <2>1, <2>4
<1>10. ASSUME NEW c \in Calls, NEW p, Claim(c, p) PROVE AllCovered'
  <2> DEFINE x == [call[c] EXCEPT !.pc = "port", !.todo = @ \ {p}, !.choice = p]
  <2>1. call' = [call EXCEPT ![c] = x] /\ call[c].pc = "raise"
    BY <1>10 DEF Claim, Raising
  <2>2. /\ x.todo = call[c].todo \ {p} /\ x.choice = p /\ x.pc = "port"
        /\ x.key = call[c].key /\ x.version = call[c].version
        /\ x.failed = call[c].failed /\ x.armed = call[c].armed
    BY <1>1 DEF CallStates
  <2> HIDE DEF x
  <2>3. G(x)
    <3>1. Clear(x) => Clear(call[c])
      BY <2>1, <2>2 DEF Engaged
    <3>2. \A q : Left(call[c], q) => Left(x, q)
      BY <2>1, <2>2
    <3>3. call[c].pc \in Engaged
      BY <2>1 DEF Engaged
    <3> HIDE DEF Clear, Left, P
    <3> QED
      BY <1>7, <2>2, <3>1, <3>2, <3>3
  <2> QED
    BY <1>6, <2>1, <2>3
<1>11. ASSUME NEW c \in Calls, NEW p, Replay(c, p) PROVE AllCovered'
  <2> DEFINE x == [call[c] EXCEPT !.todo = @ \ {p}]
             y == [call[c] EXCEPT !.failed = TRUE]
  <2>1. /\ call' = [call EXCEPT ![c] = x] \/ call' = [call EXCEPT ![c] = y]
        /\ call[c].pc = "raise" /\ p \in call[c].todo /\ key[Doc(c, p)] = "done"
        /\ UNCHANGED raised
    BY <1>11 DEF Replay, Raising
  <2>2. /\ x.todo = call[c].todo \ {p} /\ x.pc = call[c].pc
        /\ x.key = call[c].key /\ x.version = call[c].version
        /\ x.failed = call[c].failed /\ x.armed = call[c].armed
    BY <1>1 DEF CallStates
  <2>3. y.failed
    BY <1>1 DEF CallStates
  <2>4. raised'[Doc(c, p)] = 1
    <3>1. p \in Parties(call[c].key, call[c].version)
      BY <2>1 DEF Keyed, InFlight, Fit, Engaged
    <3>2. Doc(c, p) \in Docs
      BY <2>1, <3>1, DocsOfCalls DEF Keyed, Engaged
    <3> QED
      BY <2>1, <3>2 DEF Keyed, OneKey
  <2> HIDE DEF x, y
  <2>5. G(y)
    BY <2>3 DEF G
  <2>6. G(x)
    <3>1. Clear(x) => Clear(call[c])
      BY <2>2
    <3>2. \A q : Left(call[c], q) => Left(x, q) \/ q = p
      BY <2>1, <2>2
    <3>3. raised'[<<x.key, x.version, p>>] = 1
      BY <2>2, <2>4 DEF Doc
    <3>4. call[c].pc \in Engaged
      BY <2>1 DEF Engaged
    <3> HIDE DEF Clear, Left, P
    <3> QED
      BY <1>7, <2>2, <3>1, <3>2, <3>3, <3>4
  <2> QED
    BY <1>6, <2>1, <2>5, <2>6
<1>12. ASSUME NEW c \in Calls, PortDone(c) PROVE AllCovered'
  <2> DEFINE x == [call[c] EXCEPT !.pc = "raise"]
             d == DocOf(call[c])
  <2>1. /\ call[c].pc = "port" /\ call' = [call EXCEPT ![c] = x]
        /\ raised' = [raised EXCEPT ![d] = @ + 1]
    BY <1>12 DEF PortDone, Goto, Doc, DocOf
  <2>2. d \in Docs /\ raised[d] = 0
    <3>1. d \in Docs
      BY <2>1, DocsOfCalls DEF Keyed, Engaged
    <3> QED
      BY <2>1, <3>1 DEF Keyed, OneKey
  <2>3. /\ x.todo = call[c].todo /\ x.pc = "raise"
        /\ x.key = call[c].key /\ x.version = call[c].version
        /\ x.failed = call[c].failed /\ x.armed = call[c].armed
    BY <1>1 DEF CallStates
  <2>4. d = <<x.key, x.version, call[c].choice>>
    BY <2>3 DEF DocOf
  <2> HIDE DEF x, d
  <2>5. raised'[d] = 1
    BY <1>1, <2>1, <2>2
  <2>6. G(x)
    <3>1. Clear(x) => Clear(call[c])
      BY <2>1, <2>3 DEF Engaged
    <3>2. \A q : Left(call[c], q) => Left(x, q) \/ q = call[c].choice
      BY <2>1, <2>3
    <3>3. call[c].pc \in Engaged
      BY <2>1 DEF Engaged
    <3> HIDE DEF Clear, Left, P
    <3> QED
      BY <1>7, <2>3, <2>4, <2>5, <3>1, <3>2, <3>3
  <2> QED
    BY <1>6, <2>1, <2>6
<1>13. ASSUME NEW c \in Calls, PortRefused(c) PROVE AllCovered'
  <2> DEFINE x == [call[c] EXCEPT !.pc = "raise", !.failed = TRUE]
  <2>1. call' = [call EXCEPT ![c] = x]
    BY <1>13 DEF PortRefused
  <2>2. x.failed
    BY <1>1 DEF CallStates
  <2> HIDE DEF x
  <2>3. G(x)
    BY <2>2 DEF G
  <2> QED
    BY <1>6, <2>1, <2>3
<1>14. ASSUME NEW c \in Calls, CrashAfter(c) PROVE AllCovered'
  <2>1. call' = [call EXCEPT ![c] = NoCall]
    BY <1>14 DEF CrashAfter, Crash, Leave
  <2>2. G(NoCall)
    BY DEF G, NoCall, Engaged
  <2> QED
    BY <1>6, <2>1, <2>2
<1> QED
  BY <1>8, <1>9, <1>10, <1>11, <1>12, <1>13, <1>14, QuietSteps DEF Keyed

\* Only a call whose parties are all covered records its action as verified.
LEMMA ProvenKept ==
    ASSUME Keyed, AllCovered, Proven, [Next]_vars
    PROVE  Proven'
<1> DEFINE P(k, v) == IF k = "procure" THEN Sources[plan'[v].strategy] ELSE MakeLines
           Real(k, v) == v <= Version' /\ \A p \in P(k, v) : raised'[<<k, v, p>>] = 1
<1>1. /\ Version \in Nat /\ Version' \in Nat /\ Version <= Version' /\ Version <= MaxPlans
      /\ MaxPlans \in Nat
      /\ action \in [ActionKinds -> [1 .. MaxPlans -> SUBSET {"verified", "failed"}]]
  BY BasePlanning, PlansGrow DEF Keyed, Base, TypeOK
<1>2. ASSUME \A k \in DocKinds, v \in 1 .. MaxPlans : "verified" \in action'[k][v] => Real(k, v)
      PROVE  Proven'
  BY <1>2 DEF Proven, Parties
<1>3. ASSUME NEW k \in DocKinds, NEW v \in 1 .. MaxPlans, "verified" \in action[k][v]
      PROVE  Real(k, v)
  <2>1. v \in 1 .. Version /\ \A p \in Parties(k, v) : raised[<<k, v, p>>] = 1
    BY <1>1, <1>3 DEF Proven
  <2>2. \A p \in P(k, v) : raised'[<<k, v, p>>] = 1
    BY <2>1, PartiesStay
  <2> QED
    BY <1>1, <2>1, <2>2
<1> HIDE DEF Real
<1>4. ASSUME \A k \in DocKinds : action'[k] = action[k] PROVE Proven'
  BY <1>2, <1>3, <1>4
<1>5. ASSUME NEW c \in Calls, Reserve(c) PROVE Proven'
  <2>1. \A k \in DocKinds : action'[k] = action[k]
    BY <1>1, <1>5 DEF Reserve, DocKinds, ActionKinds
  <2> QED
    BY <1>4, <2>1
<1>6. ASSUME NEW c \in Calls, Record(c) PROVE Proven'
  <2> DEFINE k == call[c].key
             v == call[c].version
  <2>1. PICK holds \in ReadBack(c), rows \in SUBSET {"verified", "failed"} :
            /\ action' = [action EXCEPT ![k][v] = rows]
            /\ "verified" \in rows => holds \/ "verified" \in action[k][v]
    BY <1>6, RecordsOutcome DEF Keyed
  <2>2. k \in DocKinds /\ v \in 1 .. Version /\ call[c].pc = "raise"
    BY <1>6 DEF Record, Recording, Keyed, Base, GoodCalls, GoodCall
  <2>3. ASSUME holds, NEW p \in Parties(k, v) PROVE raised[<<k, v, p>>] = 1
    <3>1. ~call[c].failed /\ ~Fault(c)
      BY <2>3 DEF ReadBack
    <3>2. ~call[c].armed
      BY <2>3, <3>1 DEF Fault
    <3>3. call[c].todo = {}
      BY <1>6, <3>1 DEF Record, Recording
    <3> QED
      BY <2>2, <2>3, <3>1, <3>2, <3>3 DEF AllCovered, Covered, Engaged
  <2>4. holds => Real(k, v)
    <3>1. \A p \in P(k, v) : p \in Parties(k, v) /\
              (raised[<<k, v, p>>] = 1 => raised'[<<k, v, p>>] = 1)
      BY <2>2, PartiesStay
    <3> QED
      BY <1>1, <2>2, <2>3, <3>1 DEF Real
  <2> HIDE DEF k, v
  <2>5. \A l \in DocKinds, u \in 1 .. MaxPlans :
            action'[l][u] = IF l = k /\ u = v THEN rows ELSE action[l][u]
    BY <1>1, <2>1, <2>2 DEF ActionKinds
  <2>6. ASSUME NEW l \in DocKinds, NEW u \in 1 .. MaxPlans, "verified" \in action'[l][u]
        PROVE  Real(l, u)
    <3>1. CASE "verified" \in action[l][u]
      BY <1>3, <3>1
    <3>2. CASE "verified" \notin action[l][u]
      <4>1. l = k /\ u = v /\ holds
        BY <2>1, <2>5, <2>6, <3>2
      <4> QED
        BY <2>4, <4>1
    <3> QED
      BY <3>1, <3>2
  <2> QED
    BY <1>2, <2>6
<1>7. ASSUME NEW c \in Calls,
             \/ Advance(c) \/ Retry(c) \/ Crash(c) \/ Observe(c) \/ Propose(c)
             \/ NoCandidate(c) \/ Publish(c) \/ Critique(c) \/ Authorize(c) \/ Gather(c)
             \/ Unresolved(c) \/ PortDone(c) \/ PortRefused(c) \/ RecordClash(c) \/ Watch(c)
             \/ Close(c) \/ Clash(c)
             \/ \E p \in Vendors \cup MakeLines : Claim(c, p) \/ Replay(c, p) \/ Yield(c, p)
      PROVE  UNCHANGED action
  BY <1>7 DEF Advance, Retry, Crash, Observe, Propose, NoCandidate, Publish, Critique,
     Authorize, Gather, Unresolved, PortDone, PortRefused, RecordClash, Watch, Close, Clash,
     Claim, Replay, Yield, missionVars
<1>8. ASSUME Person \/ Disrupt \/ UNCHANGED vars PROVE UNCHANGED action
  BY <1>8 DEF Person, Approve, Reject, TryAnother, SetAutonomy, Upload, ArmFault, Disrupt,
     vars, missionVars
<1> QED
  BY <1>4, <1>5, <1>6, <1>7, <1>8 DEF Next, Step

\* What the mission records as verified stands: every vendor of the plan has its
\* order and every line of it its work order.
THEOREM VerifiedStands ==
    Spec => []VerifiedIsReal
<1> DEFINE Inv == Keyed /\ AllCovered /\ Proven
<1>1. Init => Inv
  <2> SUFFICES ASSUME Init PROVE AllCovered /\ Proven
    BY BaseInitially, KeyedInitially
  <2>1. AllCovered
    BY DEF Init, AllCovered, Covered, NoCall, Engaged
  <2>2. Proven
    BY DEF Init, Proven, ActionKinds
  <2> QED
    BY <2>1, <2>2
<1>2. Inv /\ [Next]_vars => Inv'
  BY KeyedNext, CoveredKept, ProvenKept
<1>3. Inv => VerifiedIsReal
  <2> SUFFICES ASSUME Inv PROVE VerifiedIsReal
    OBVIOUS
  <2>1. 1 .. Version \subseteq 1 .. MaxPlans
    BY BasePlanning DEF Keyed, Planning
  <2> QED
    BY <2>1 DEF Proven, VerifiedIsReal
<1> HIDE DEF Inv
<1> QED
  BY <1>1, <1>2, <1>3, PTL DEF Spec

-----------------------------------------------------------------------------
(***************************************************************************)
(* The arc has a gate: what comes early, the step that authorises, the     *)
(* reservation, and what comes late.                                       *)
(***************************************************************************)
Early == Range(Observations) \cup {"strategy", "critique"}
Late == {"procure", "workorder", "watch", "close"}
Gate == Len(Observations) + 3
Steps == Cardinality(DOMAIN row)

\* The arc written out: the investigating steps, none twice, and the commitments.
LEMMA ArcSpelled ==
    /\ Gate \in Nat /\ Gate >= 3
    /\ Arc \in Seq(Range(Arc)) /\ DOMAIN Arc = 1 .. Gate + 5
    /\ Range(Arc) = Range(Observations) \cup CommitKeys
    /\ Range(Observations) \cap CommitKeys = {} /\ "sourcing" \in Range(Observations)
    /\ \A i \in 1 .. Gate - 3 : Arc[i] \in Range(Observations)
    /\ \A k \in Range(Observations) : \E i \in 1 .. Gate - 3 : Arc[i] = k
    /\ \A i, j \in 1 .. Gate - 3 : Arc[i] = Arc[j] => i = j
    /\ Arc[Gate - 2] = "strategy" /\ Arc[Gate - 1] = "critique"
    /\ Arc[Gate] = "authorize" /\ Arc[Gate + 1] = "reserve"
    /\ Arc[Gate + 2] = "procure" /\ Arc[Gate + 3] = "workorder"
    /\ Arc[Gate + 4] = "watch" /\ Arc[Gate + 5] = "close"
<1> DEFINE n == Len(Observations)
<1>1. /\ Observations \in Seq(STRING) /\ IsInjective(Observations)
      /\ Range(Observations) \cap CommitKeys = {}
  BY MissionAssumption, CommitmentKeys DEF MissionAssumption
<1>2. n \in Nat /\ DOMAIN Observations = 1 .. n
  BY <1>1, LenProperties, Zenon
<1>3. "sourcing" \in Range(Observations)
  BY <1>2, MissionAssumption DEF MissionAssumption, Contains, Range
<1>4. /\ Commitments[1] = "strategy" /\ Commitments[2] = "critique"
      /\ Commitments[3] = "authorize" /\ Commitments[4] = "reserve"
      /\ Commitments[5] = "procure" /\ Commitments[6] = "workorder"
      /\ Commitments[7] = "watch" /\ Commitments[8] = "close"
  BY DEF Commitments
<1>5. Observations \in Seq(Range(Arc)) /\ Commitments \in Seq(Range(Arc))
  <2>1. Observations \in Seq(Range(Observations))
    BY <1>1, SeqOfRange, Zenon
  <2>2. Range(Observations) \subseteq Range(Arc) /\ CommitKeys \subseteq Range(Arc)
    BY ArcKeys
  <2> QED
    BY <2>1, <2>2, CommitmentKeys, SeqMonotonic, Zenon
<1>6. /\ Len(Arc) = n + 8 /\ DOMAIN Arc = 1 .. n + 8
      /\ \A i \in 1 .. n + 8 : Arc[i] = IF i <= n THEN Observations[i] ELSE Commitments[i - n]
  <2>1. /\ Len(Arc) = n + Len(Commitments)
        /\ \A i \in 1 .. n + Len(Commitments) :
              Arc[i] = IF i <= n THEN Observations[i] ELSE Commitments[i - n]
    BY <1>5, ConcatProperties, Zenon DEF Arc
  <2>2. DOMAIN Arc = 1 .. Len(Arc)
    BY ArcKeys, LenProperties, Zenon
  <2> QED
    BY <2>1, <2>2, CommitmentKeys
<1>7. Range(Arc) = Range(Observations) \cup CommitKeys /\ Arc \in Seq(Range(Arc))
  BY ArcKeys
<1>8. \A i \in 1 .. n : Arc[i] = Observations[i] /\ Arc[i] \in Range(Observations)
  BY <1>2, <1>6 DEF Range
<1>9. /\ Arc[n + 1] = "strategy" /\ Arc[n + 2] = "critique"
      /\ Arc[n + 3] = "authorize" /\ Arc[n + 4] = "reserve"
      /\ Arc[n + 5] = "procure" /\ Arc[n + 6] = "workorder"
      /\ Arc[n + 7] = "watch" /\ Arc[n + 8] = "close"
  <2>1. \A j \in 1 .. 8 : Arc[n + j] = Commitments[j]
    <3>1. \A j \in 1 .. 8 : n + j \in 1 .. n + 8 /\ ~ (n + j <= n) /\ (n + j) - n = j
      BY <1>2
    <3> QED
      BY <1>6, <3>1
  <2> QED
    BY <1>4, <2>1
<1>10. \A k \in Range(Observations) : \E i \in 1 .. n : Arc[i] = k
  BY <1>2, <1>8 DEF Range
<1>11. \A i, j \in 1 .. n : Arc[i] = Arc[j] => i = j
  BY <1>1, <1>2, <1>8 DEF IsInjective
<1>12. /\ Gate \in Nat /\ Gate >= 3 /\ n = Gate - 3 /\ n + 8 = Gate + 5
       /\ n + 1 = Gate - 2 /\ n + 2 = Gate - 1 /\ n + 3 = Gate /\ n + 4 = Gate + 1
       /\ n + 5 = Gate + 2 /\ n + 6 = Gate + 3 /\ n + 7 = Gate + 4
  BY <1>2 DEF Gate
<1> HIDE DEF n
<1> QED
  BY <1>1, <1>3, <1>6, <1>7, <1>8, <1>9, <1>10, <1>11, <1>12

\* Where the steps stand in the arc, each of them once.
LEMMA ArcPlaces ==
    /\ Gate \in Nat /\ Gate >= 3
    /\ Arc \in Seq(Range(Arc)) /\ DOMAIN Arc = 1 .. Gate + 5
    /\ Range(Arc) = Early \cup {"authorize", "reserve"} \cup Late
    /\ "authorize" \notin Early /\ "reserve" \notin Early /\ Early \cap Late = {}
    /\ \A i \in DOMAIN Arc :
          /\ Arc[i] \in Early => i < Gate
          /\ Arc[i] = "authorize" <=> i = Gate
          /\ Arc[i] = "reserve" <=> i = Gate + 1
          /\ Arc[i] \in Late <=> i > Gate + 1
          /\ Arc[i] = "strategy" <=> i = Gate - 2
    /\ \A k \in Early : \E i \in 1 .. Gate - 1 : Arc[i] = k
    /\ "sourcing" \in Early \ {"strategy", "critique"}
<1>1. Gate \in Nat /\ Gate >= 3 /\ DOMAIN Arc = 1 .. Gate + 5
  BY ArcSpelled
<1>2. \A i \in DOMAIN Arc :
          i \in 1 .. Gate - 3 \/ i \in {Gate - 2, Gate - 1, Gate, Gate + 1, Gate + 2,
                                        Gate + 3, Gate + 4, Gate + 5}
  BY <1>1
<1>3. ASSUME NEW i \in DOMAIN Arc
      PROVE  /\ Arc[i] \in Early => i < Gate
             /\ Arc[i] = "authorize" <=> i = Gate
             /\ Arc[i] = "reserve" <=> i = Gate + 1
             /\ Arc[i] \in Late <=> i > Gate + 1
             /\ Arc[i] = "strategy" <=> i = Gate - 2
  <2>1. CASE i \in 1 .. Gate - 3
    <3>1. Arc[i] \notin CommitKeys
      BY <2>1, ArcSpelled
    <3> QED
      BY <1>1, <2>1, <3>1 DEF CommitKeys, Late
  <2>2. CASE i \in {Gate - 2, Gate - 1, Gate, Gate + 1, Gate + 2, Gate + 3, Gate + 4, Gate + 5}
    BY <1>1, <2>2, ArcSpelled DEF CommitKeys, Late, Early
  <2> QED
    BY <1>2, <2>1, <2>2
<1>4. ASSUME NEW k \in Early PROVE \E i \in 1 .. Gate - 1 : Arc[i] = k
  <2>1. CASE k \in Range(Observations)
    <3>1. PICK i \in 1 .. Gate - 3 : Arc[i] = k
      BY <2>1, ArcSpelled
    <3> QED
      BY <1>1, <3>1
  <2>2. CASE k \in {"strategy", "critique"}
    <3>1. Gate - 2 \in 1 .. Gate - 1 /\ Gate - 1 \in 1 .. Gate - 1
      BY <1>1
    <3> QED
      BY <2>2, <3>1, ArcSpelled
  <2> QED
    BY <2>1, <2>2 DEF Early
<1>5. /\ "authorize" \notin Early /\ "reserve" \notin Early /\ Early \cap Late = {}
      /\ "sourcing" \in Early \ {"strategy", "critique"}
      /\ Range(Arc) = Early \cup {"authorize", "reserve"} \cup Late
  BY ArcSpelled DEF Early, Late, CommitKeys
<1> QED
  BY <1>1, <1>3, <1>4, <1>5, ArcSpelled

\* There are two fewer early steps than the gate's place says, plus one.
LEMMA EarlyCounts ==
    IsFiniteSet(Early) /\ Cardinality(Early) = Gate - 1
<1> DEFINE n == Len(Observations)
           R == Range(Observations)
<1>1. /\ Observations \in Seq(STRING) /\ IsInjective(Observations)
      /\ R \cap CommitKeys = {}
  BY MissionAssumption, CommitmentKeys DEF MissionAssumption
<1>2. n \in Nat /\ DOMAIN Observations = 1 .. n
  BY <1>1, LenProperties, Zenon
<1>3. IsFiniteSet(1 .. n) /\ Cardinality(1 .. n) = n
  <2> HIDE DEF n
  <2>1. /\ IsFiniteSet(1 .. n)
        /\ Cardinality(1 .. n) = IF 1 > n THEN 0 ELSE n - 1 + 1
    BY <1>2, FS_Interval
  <2> QED
    BY <1>2, <2>1
<1>4. IsFiniteSet(R) /\ Cardinality(R) = n
  <2> DEFINE f == [i \in 1 .. n |-> Observations[i]]
  <2>1. f \in Bijection(1 .. n, R)
    BY <1>1, <1>2 DEF Bijection, Injection, Surjection, IsInjective, Range
  <2>2. ExistsBijection(1 .. n, R)
    BY <2>1 DEF ExistsBijection
  <2> QED
    BY <1>3, <2>2, FS_Bijection
<1>5. "strategy" \notin R /\ "critique" \notin R
  BY <1>1 DEF CommitKeys
<1> HIDE DEF n, R
<1>6. IsFiniteSet(R \cup {"strategy"}) /\ Cardinality(R \cup {"strategy"}) = n + 1
  BY <1>4, <1>5, FS_AddElement
<1>7. /\ IsFiniteSet((R \cup {"strategy"}) \cup {"critique"})
      /\ Cardinality((R \cup {"strategy"}) \cup {"critique"}) = n + 2
  <2>1. "critique" \notin R \cup {"strategy"}
    BY <1>5
  <2>2. /\ IsFiniteSet((R \cup {"strategy"}) \cup {"critique"})
        /\ Cardinality((R \cup {"strategy"}) \cup {"critique"}) = (n + 1) + 1
    BY <1>6, <2>1, FS_AddElement
  <2> QED
    BY <1>2, <2>2
<1>8. Early = (R \cup {"strategy"}) \cup {"critique"} /\ Gate - 1 = n + 2
  BY <1>2 DEF Early, Gate, R, n
<1> QED
  BY <1>7, <1>8

\* Everything before the next step is done, and the next step is not.
LEMMA NextInPlace ==
    ASSUME Done \subseteq Range(Arc), Done # Range(Arc)
    PROVE  /\ NextKey \in Range(Arc) \ Done
           /\ NextKey \in {"authorize", "reserve"} \cup Late => Early \subseteq Done
           /\ NextKey \in {"reserve"} \cup Late => "authorize" \in Done
           /\ NextKey \in Late => "reserve" \in Done
<1> DEFINE S == {i \in DOMAIN Arc : Arc[i] \notin Done}
           IsNext(i) == Arc[i] \notin Done /\ \A j \in 1 .. i - 1 : Arc[j] \in Done
           k == CHOOSE i \in DOMAIN Arc : IsNext(i)
<1>1. DOMAIN Arc = 1 .. Gate + 5 /\ Gate \in Nat /\ Gate >= 3
  BY ArcPlaces
<1>2. S \in SUBSET Nat /\ S # {}
  BY <1>1 DEF Range
<1>3. PICK i \in S : \A j \in S : i <= j
  BY <1>2, LeastNumber
<1>4. i \in DOMAIN Arc /\ IsNext(i)
  BY <1>1, <1>3
<1>5. k \in DOMAIN Arc /\ IsNext(k)
  BY <1>4
<1>6. NextKey = Arc[k]
  BY DEF NextKey
<1> HIDE DEF k
<1>7. NextKey \in Range(Arc) \ Done
  BY <1>5, <1>6 DEF Range
<1>8. Arc[Gate] = "authorize" /\ Arc[Gate + 1] = "reserve"
  BY <1>1, ArcPlaces
<1>9. Arc[k] \in {"authorize", "reserve"} \cup Late => k >= Gate
  BY <1>1, <1>5, ArcPlaces
<1>10. Arc[k] \in {"reserve"} \cup Late => k >= Gate + 1
  BY <1>1, <1>5, ArcPlaces
<1>11. Arc[k] \in Late => k >= Gate + 2
  BY <1>1, <1>5, ArcPlaces
<1>12. ASSUME k >= Gate, NEW e \in Early PROVE e \in Done
  <2>1. PICK j \in 1 .. Gate - 1 : Arc[j] = e
    BY <1>12, ArcPlaces
  <2>2. j \in 1 .. k - 1
    BY <1>1, <1>5, <1>12, <2>1
  <2> QED
    BY <1>5, <2>1, <2>2
<1>13. k >= Gate + 1 => "authorize" \in Done
  <2>1. k >= Gate + 1 => Gate \in 1 .. k - 1
    BY <1>1, <1>5
  <2> QED
    BY <1>5, <1>8, <2>1
<1>14. k >= Gate + 2 => "reserve" \in Done
  <2>1. k >= Gate + 2 => Gate + 1 \in 1 .. k - 1
    BY <1>1, <1>5
  <2> QED
    BY <1>5, <1>8, <2>1
<1> QED
  BY <1>6, <1>7, <1>9, <1>10, <1>11, <1>12, <1>13, <1>14

\* Every rewinding goes back at least to the step that authorises.
LEMMA RewindsPastGate ==
    ASSUME NEW k \in {"sourcing", "strategy", "authorize"}
    PROVE  {"authorize", "reserve"} \cup Late \subseteq From(k)
<1> DEFINE first == CHOOSE i \in DOMAIN Arc : Arc[i] = k
<1>1. /\ Gate \in Nat /\ Gate >= 3 /\ DOMAIN Arc = 1 .. Gate + 5 /\ Arc \in Seq(Range(Arc))
      /\ Range(Arc) = Early \cup {"authorize", "reserve"} \cup Late
  BY ArcPlaces
<1>2. Len(Arc) = Gate + 5
  <2>1. DOMAIN Arc = 1 .. Len(Arc) /\ Len(Arc) \in Nat
    BY <1>1, LenProperties, Zenon
  <2> QED
    BY <1>1, <2>1
<1>3. \E i \in DOMAIN Arc : Arc[i] = k
  <2>1. k \in Range(Arc)
    BY <1>1, ArcPlaces DEF Early
  <2> QED
    BY <2>1 DEF Range
<1>4. first \in DOMAIN Arc /\ Arc[first] = k
  BY <1>3
<1>5. first <= Gate
  BY <1>1, <1>4, ArcPlaces DEF Early
<1>6. From(k) = {Arc[i] : i \in first .. Len(Arc)}
  BY DEF From
<1> HIDE DEF first
<1>7. ASSUME NEW x \in {"authorize", "reserve"} \cup Late PROVE x \in From(k)
  <2>1. PICK i \in DOMAIN Arc : Arc[i] = x
    BY <1>1 DEF Range
  <2>2. i >= Gate
    BY <1>1, <2>1, ArcPlaces
  <2>3. i \in first .. Len(Arc)
    BY <1>1, <1>2, <1>4, <1>5, <2>2
  <2> QED
    BY <1>6, <2>1, <2>3
<1> QED
  BY <1>7

Unique == \A i, j \in DOMAIN row : row[i].key = row[j].key => i = j

\* As many rows as steps done, when no step has two.
LEMMA DoneCounts ==
    ASSUME Base, Unique
    PROVE  /\ Done \subseteq Range(Arc)
           /\ IsFiniteSet(Done) /\ Cardinality(Done) = Steps /\ Steps \in Nat
<1>1. IsFiniteSet(DOMAIN row)
  BY DEF Base, Rows
<1>2. ExistsBijection(DOMAIN row, Done)
  <2> DEFINE f == [i \in DOMAIN row |-> row[i].key]
  <2>1. f \in Bijection(DOMAIN row, Done)
    BY DEF Bijection, Injection, Surjection, IsInjective, Done, Unique
  <2> QED
    BY <2>1 DEF ExistsBijection
<1>3. Done \subseteq Range(Arc)
  BY DEF Done, Base, Rows, GoodRow
<1> QED
  BY <1>1, <1>2, <1>3, FS_Bijection, FS_CardinalityType DEF Steps

\* What is done bounds the number of rows, on both sides.
LEMMA HowFar ==
    ASSUME Base, Unique
    PROVE  /\ Early \subseteq Done => Steps >= Gate - 1
           /\ Early \subseteq Done /\ "authorize" \in Done => Steps >= Gate
           /\ Early \cup {"authorize", "reserve"} \subseteq Done => Steps >= Gate + 1
           /\ \A k \in Early : k \notin Done /\ Done \cap Late = {}
                 /\ ~ ({"authorize", "reserve"} \subseteq Done) => Steps < Gate
           /\ Done \subseteq Early => Steps <= Gate - 1
           /\ Done \subseteq Early \cup {"authorize"} => Steps <= Gate
           /\ Done \subseteq Early \cup {"reserve"} => Steps <= Gate
<1>1. /\ IsFiniteSet(Done) /\ Cardinality(Done) = Steps /\ Steps \in Nat
      /\ Done \subseteq Range(Arc)
  BY DoneCounts
<1>2. /\ IsFiniteSet(Early) /\ Cardinality(Early) = Gate - 1 /\ Gate \in Nat /\ Gate >= 3
      /\ "authorize" \notin Early /\ "reserve" \notin Early
      /\ Range(Arc) = Early \cup {"authorize", "reserve"} \cup Late
  BY ArcPlaces, EarlyCounts
<1>3. \A S \in SUBSET Done : IsFiniteSet(S) /\ Cardinality(S) <= Steps
  BY <1>1, FS_Subset
<1>4. \A S : IsFiniteSet(S) /\ Done \subseteq S => Steps <= Cardinality(S)
  BY <1>1, FS_Subset
<1>5. \A k \in {"authorize", "reserve"} :
          IsFiniteSet(Early \cup {k}) /\ Cardinality(Early \cup {k}) = Gate
  <2>1. \A k \in {"authorize", "reserve"} :
            IsFiniteSet(Early \cup {k}) /\ Cardinality(Early \cup {k}) = (Gate - 1) + 1
    BY <1>2, FS_AddElement
  <2>2. (Gate - 1) + 1 = Gate
    BY <1>2
  <2> QED
    BY <2>1, <2>2, Zenon
<1>6. /\ IsFiniteSet((Early \cup {"authorize"}) \cup {"reserve"})
      /\ Cardinality((Early \cup {"authorize"}) \cup {"reserve"}) = Gate + 1
  BY <1>2, <1>5, FS_AddElement
<1>7. ASSUME NEW k \in Early, k \notin Done, Done \cap Late = {},
             ~ ({"authorize", "reserve"} \subseteq Done)
      PROVE  Steps < Gate
  <2>1. PICK x \in {"authorize", "reserve"} : Done \subseteq (Early \ {k}) \cup {x}
    BY <1>1, <1>2, <1>7
  <2>2. Done \subseteq Early \cup {x} /\ Done # Early \cup {x}
    BY <1>7, <2>1
  <2>3. Steps <= Gate /\ Steps # Gate
    BY <1>1, <1>5, <2>2, FS_Subset
  <2> QED
    BY <1>1, <1>2, <2>3
<1>8. Early \subseteq Done => Steps >= Gate - 1
  BY <1>1, <1>2, <1>3
<1>9. Early \subseteq Done /\ "authorize" \in Done => Steps >= Gate
  <2>1. Early \subseteq Done /\ "authorize" \in Done => Early \cup {"authorize"} \in SUBSET Done
    OBVIOUS
  <2> QED
    BY <1>1, <1>2, <1>3, <1>5, <2>1
<1>10. Early \cup {"authorize", "reserve"} \subseteq Done => Steps >= Gate + 1
  <2>1. Early \cup {"authorize", "reserve"} \subseteq Done
            => (Early \cup {"authorize"}) \cup {"reserve"} \in SUBSET Done
    OBVIOUS
  <2> QED
    BY <1>1, <1>2, <1>3, <1>6, <2>1
<1> QED
  BY <1>2, <1>4, <1>5, <1>7, <1>8, <1>9, <1>10

-----------------------------------------------------------------------------
(***************************************************************************)
(* A mission whose calls come one at a time, and no delay was reported.    *)
(* The plan a call raises documents for was made before the call, but the  *)
(* step that authorised may belong to an earlier plan: new terms or a new  *)
(* tier may rewind the mission while that step is being taken.  Steps are  *)
(* numbered by how many there are, so its row then stands at a number that *)
(* a later step will want, and that step fails before the stale row counts.*)
(* No document is raised until every early step is done, which needs more  *)
(* rows than the stale one leaves room for.                                *)
(***************************************************************************)
Active(c) == call[c].pc # "idle"
Authorized(v) == plan[v].asks => Granted(v)
Reserved == \E v \in 1 .. MaxPlans : "verified" \in action["reserve"][v]
Passed == \E i \in DOMAIN row : row[i].key = "authorize" /\ row[i].status = "succeeded"

\* The numbers a step may have.
InPlace(k, i) ==
    /\ k \in Early => i <= Gate
    /\ k = "authorize" => i = Gate
    /\ k = "reserve" => i = Gate + 1
    /\ k \in Late => i > Gate + 1
Ordered ==
    /\ Unique
    /\ \A i \in DOMAIN row : InPlace(row[i].key, i)
    /\ "reserve" \in Done => Reserved
    /\ {"authorize", "reserve"} \subseteq Done => Early \subseteq Done
    /\ Done \cap Late # {} => {"authorize", "reserve"} \subseteq Done

\* What is true of the step that a call is taking.
Sits(k, s) ==
    /\ k \notin Done
    /\ k # "authorize" => InPlace(k, s)
    /\ k = "authorize" => s = IF "reserve" \in Done THEN Gate + 1 ELSE Gate
    /\ k \in Late => {"authorize", "reserve"} \subseteq Done
    /\ k = "reserve" /\ "authorize" \in Done => Early \subseteq Done
    /\ "authorize" \in Done /\ "reserve" \notin Done => s = Steps + 1
Settled ==
    /\ \A i \in DOMAIN row : row[i].status = "succeeded"
    /\ \A a \in DOMAIN approval : ~Pending(a)
OneCall ==
    /\ \A c, d \in Calls : Active(c) /\ Active(d) => c = d
    /\ \A c \in Calls : Active(c) => Settled /\ Sits(call[c].key, call[c].seq)

\* One request at a time, for the plan in force, and one failure at a time.
Standing ==
    /\ \A a, b \in DOMAIN approval : Pending(a) /\ Pending(b) => a = b
    /\ \A a \in DOMAIN approval :
          Pending(a) => status = "awaiting_approval" /\ approval[a].version = Version
    /\ \A i, j \in Failed : i = j
    /\ \A i \in DOMAIN row :
          /\ row[i].status = "waiting_approval" =>
                row[i].key = "authorize" /\ status = "awaiting_approval"
          /\ row[i].status = "failed" => row[i].key # "reserve" /\ status = "failed"

\* A row that authorised another plan leaves no room for the early steps.
Stale == Passed /\ ~Authorized(Version) => Steps < Gate
Orderly == OneCall /\ Ordered /\ Standing /\ Stale

\* Where the early steps and the gate are done, the gate was passed for the
\* plan in force.
LEMMA PassedForThisPlan ==
    ASSUME Base, Ordered, Stale, Settled, {"authorize", "reserve"} \subseteq Done
    PROVE  Authorized(Version)
<1>1. Early \cup {"authorize", "reserve"} \subseteq Done
  BY DEF Ordered
<1>2. Steps >= Gate + 1 /\ Steps \in Nat /\ Gate \in Nat
  BY <1>1, HowFar, DoneCounts, ArcPlaces DEF Ordered
<1>3. Passed
  BY DEF Passed, Settled, Done
<1> QED
  BY <1>2, <1>3 DEF Stale

\* Fewer rows, of the same steps.
Fewer == /\ DOMAIN row' \subseteq DOMAIN row
         /\ \A i \in DOMAIN row' : row'[i].key = row[i].key
LEMMA FewerRows ==
    ASSUME Base, Ordered, Fewer
    PROVE  /\ Unique' /\ Done' \subseteq Done /\ Steps' <= Steps /\ Steps' \in Nat
           /\ \A i \in DOMAIN row' : InPlace(row'[i].key, i)
<1>1. IsFiniteSet(DOMAIN row)
  BY DEF Base, Rows
<1>2. IsFiniteSet(DOMAIN row') /\ Steps' <= Steps /\ Steps' \in Nat
  BY <1>1, FS_Subset, FS_CardinalityType DEF Fewer, Steps
<1> QED
  BY <1>2 DEF Fewer, Ordered, Unique, Done

\* A call that goes on, or stops, leaves the mission in order.
Still ==
    /\ UNCHANGED <<row, plan, approval, action, disrupted>>
    /\ \A d \in Calls :
          \/ call'[d].pc = "idle"
          \/ /\ Active(d) /\ call'[d].key = call[d].key /\ call'[d].seq = call[d].seq
             /\ \/ call'[d].pc \notin Engaged \/ call'[d].version = Version
                \/ call[d].pc \in Engaged /\ call'[d].version = call[d].version
    /\ UNCHANGED status \/ (status' = "waiting" /\ \E d \in Calls : Active(d))
LEMMA StillKeeps ==
    ASSUME Base, Orderly, Still
    PROVE  Orderly'
<1>1. /\ Done' = Done /\ Steps' = Steps /\ Version' = Version /\ Failed' = Failed
      /\ row' = row /\ approval' = approval /\ plan' = plan
      /\ Unique' = Unique /\ Settled' = Settled /\ Reserved' = Reserved
      /\ Passed' = Passed /\ Authorized(Version)' = Authorized(Version)
  BY DEF Still, Done, Steps, Version, Failed, Unique, Settled, Reserved, Passed, Authorized,
     Granted, Pending
<1>2. \A k, s : Sits(k, s)' <=> Sits(k, s)
  BY <1>1 DEF Sits
<1>3. OneCall'
  BY <1>1, <1>2 DEF Orderly, OneCall, Still, Active
<1>4. Ordered'
  BY <1>1 DEF Orderly, Ordered
<1>5. Standing'
  <2>1. CASE UNCHANGED status
    BY <1>1, <2>1 DEF Orderly, Standing, Pending
  <2>2. CASE \E d \in Calls : Active(d)
    <3>1. Settled
      BY <2>2 DEF Orderly, OneCall
    <3> QED
      BY <1>1, <3>1 DEF Settled, Standing, Failed, Pending
  <2> QED
    BY <2>1, <2>2 DEF Still
<1>6. Stale'
  BY <1>1 DEF Orderly, Stale
<1> QED
  BY <1>3, <1>4, <1>5, <1>6 DEF Orderly

\* A call alone in flight, on a settled mission and with a step that fits.
LEMMA AloneFits ==
    ASSUME Base, NEW c \in Calls, NEW k, NEW s,
           \A d \in Calls : ~Active(d),
           call' = [call EXCEPT ![c] = [NoCall EXCEPT !.pc = "run", !.key = k, !.seq = s]],
           Settled', Sits(k, s)'
    PROVE  OneCall'
<1> DEFINE x == [NoCall EXCEPT !.pc = "run", !.key = k, !.seq = s]
<1>1. x.key = k /\ x.seq = s
  BY DEF NoCall
<1>2. call \in [Calls -> CallStates]
  BY DEF Base, GoodCalls
<1>3. call' = [call EXCEPT ![c] = x]
  OBVIOUS
<1> HIDE DEF x
<1>4. \A d \in Calls : call'[d] = IF d = c THEN x ELSE call[d]
  BY <1>2, <1>3
<1>5. \A d \in Calls : Active(d)' => d = c
  BY <1>4 DEF Active
<1>6. call'[c].key = k /\ call'[c].seq = s
  BY <1>1, <1>4
<1> QED
  BY <1>5, <1>6 DEF OneCall

\* A call that advances takes the next step, whose number is free or not.
LEMMA AdvanceKeeps ==
    ASSUME Base, Orderly, NEW c \in Calls, Advance(c), clicks = 0, clicks' = 0
    PROVE  Orderly'
<1>1. /\ \A d \in Calls : ~Active(d)
      /\ call' = [call EXCEPT ![c] = [NoCall EXCEPT !.pc = "run", !.key = NextKey,
                                                    !.seq = Steps + 1]]
  <2>1. \/ \A d \in Calls : call[d].pc = "idle"
        \/ clicks' = clicks + 1 /\ clicks < MaxClicks
    BY DEF Advance, Enter
  <2>2. clicks' = clicks + 1 => \A d \in Calls : call[d].pc = "idle"
    BY DEF Advance, Enter
  <2> QED
    BY <2>1, <2>2 DEF Advance, Enter, Active, Steps
<1>2. /\ status \in Open /\ Done # Range(Arc) /\ UNCHANGED <<row, plan, approval, action, status>>
  BY DEF Advance, missionVars
<1>3. /\ Done' = Done /\ Steps' = Steps /\ Version' = Version /\ Failed' = Failed
      /\ Unique' = Unique /\ Settled' = Settled /\ Reserved' = Reserved
      /\ Passed' = Passed /\ Authorized(Version)' = Authorized(Version)
  BY <1>2 DEF Done, Steps, Version, Failed, Unique, Settled, Reserved, Passed, Authorized,
     Granted, Pending
<1>4. \A k, s : Sits(k, s)' <=> Sits(k, s)
  BY <1>3 DEF Sits
<1>5. Settled
  <2>1. status \notin {"awaiting_approval", "failed"}
    BY <1>2 DEF Open
  <2>2. \A i \in DOMAIN row : row[i].status \in {"succeeded", "failed", "waiting_approval"}
    BY DEF Base, Rows, GoodRow
  <2> QED
    BY <2>1, <2>2 DEF Orderly, Standing, Settled
<1>6. Sits(NextKey, Steps + 1)
  <2> DEFINE k == NextKey
  <2>1. /\ k \in Range(Arc) \ Done
        /\ k \in {"authorize", "reserve"} \cup Late => Early \subseteq Done
        /\ k \in {"reserve"} \cup Late => "authorize" \in Done
        /\ k \in Late => "reserve" \in Done
    BY <1>2, DoneCounts, NextInPlace DEF Orderly, Ordered
  <2> HIDE DEF k
  <2>2. Ordered /\ Unique
    BY DEF Orderly, Ordered
  <2>3. /\ Done \subseteq Range(Arc) /\ Steps \in Nat /\ Gate \in Nat
        /\ Range(Arc) = Early \cup {"authorize", "reserve"} \cup Late
        /\ "authorize" \notin Early /\ "reserve" \notin Early /\ Early \cap Late = {}
    BY <2>2, DoneCounts, ArcPlaces
  <2>4. k \in Early => Steps + 1 <= Gate
    <3>1. k \in Early => Done \cap Late = {} /\ ~ ({"authorize", "reserve"} \subseteq Done)
      BY <2>1, <2>2 DEF Ordered
    <3>2. k \in Early => Steps < Gate
      BY <2>1, <2>2, <3>1, HowFar
    <3> QED
      BY <2>3, <3>2
  <2>5. k = "authorize" => Steps + 1 = IF "reserve" \in Done THEN Gate + 1 ELSE Gate
    <3>1. k = "authorize" => Done \cap Late = {} /\ "authorize" \notin Done
      BY <2>1, <2>2 DEF Ordered
    <3>2. CASE k = "authorize" /\ "reserve" \in Done
      <4>1. Early \subseteq Done /\ Done \subseteq Early \cup {"reserve"}
        BY <2>1, <2>3, <3>1, <3>2
      <4>2. Steps <= Gate
        BY <2>2, <4>1, HowFar
      <4>3. Steps >= Gate
        <5>1. Early \cup {"reserve"} \in SUBSET Done
          BY <3>2, <4>1
        <5>2. /\ IsFiniteSet(Early \cup {"reserve"})
              /\ Cardinality(Early \cup {"reserve"}) = (Gate - 1) + 1
          BY <2>3, EarlyCounts, FS_AddElement
        <5>3. Cardinality(Early \cup {"reserve"}) <= Steps
          BY <2>2, <5>1, DoneCounts, FS_Subset
        <5> QED
          BY <2>3, <5>2, <5>3
      <4> QED
        BY <2>3, <3>2, <4>2, <4>3
    <3>3. CASE k = "authorize" /\ "reserve" \notin Done
      <4>1. Early \subseteq Done /\ Done \subseteq Early
        BY <2>1, <2>3, <3>1, <3>3
      <4>2. Steps <= Gate - 1 /\ Steps >= Gate - 1
        BY <2>2, <4>1, HowFar
      <4> QED
        BY <2>3, <3>3, <4>2
    <3> QED
      BY <3>2, <3>3
  <2>6. k = "reserve" => Steps + 1 = Gate + 1
    <3>1. k = "reserve" => Early \subseteq Done /\ "authorize" \in Done
                           /\ Done \subseteq Early \cup {"authorize"}
      BY <2>1, <2>2, <2>3 DEF Ordered
    <3>2. k = "reserve" => Steps <= Gate /\ Steps >= Gate
      BY <2>2, <3>1, HowFar
    <3> QED
      BY <2>3, <3>2
  <2>7. k \in Late => Steps + 1 > Gate + 1
    <3>1. k \in Late => Steps >= Gate + 1
      BY <2>1, <2>2, HowFar
    <3> QED
      BY <2>3, <3>1
  <2>8. InPlace(k, Steps + 1) \/ k = "authorize"
    BY <2>4, <2>6, <2>7 DEF InPlace
  <2> HIDE DEF Late
  <2>9. Sits(k, Steps + 1)
    BY <2>1, <2>5, <2>8 DEF Sits
  <2> QED
    BY <2>9 DEF k
<1>7. OneCall'
  BY <1>1, <1>3, <1>4, <1>5, <1>6, AloneFits
<1>8. Ordered' /\ Standing' /\ Stale'
  BY <1>2, <1>3 DEF Orderly, Ordered, Standing, Stale, Pending
<1> QED
  BY <1>7, <1>8 DEF Orderly

\* A retry deletes from the failed row on, which stood where its step belongs.
LEMMA RetryKeeps ==
    ASSUME Base, Orderly, NEW c \in Calls, Retry(c), clicks = 0, clicks' = 0
    PROVE  Orderly'
<1>1. PICK last \in Failed :
         /\ \A i \in Failed : i <= last
         /\ row[last].key # "authorize"
         /\ DeleteSteps([j \in DOMAIN row |-> j >= last])
         /\ Enter(c, row[last].key, last)
         /\ UNCHANGED <<plan, approval, action>>
  BY DEF Retry
<1>2. PICK k : k = row[last].key
  OBVIOUS
<1>3. /\ \A d \in Calls : ~Active(d)
      /\ call' = [call EXCEPT ![c] = [NoCall EXCEPT !.pc = "run", !.key = k, !.seq = last]]
  <2>1. \A d \in Calls : ~Active(d)
    BY <1>1 DEF Enter, Active
  <2> QED
    BY <1>1, <1>2, <2>1 DEF Enter
<1>4. /\ DOMAIN row \subseteq Nat /\ last \in DOMAIN row /\ row[last].status = "failed"
      /\ \A i \in DOMAIN row : row[i].status \in {"succeeded", "failed", "waiting_approval"}
      /\ k \in Range(Arc)
  BY <1>1, <1>2 DEF Failed, Base, Rows, GoodRow
<1>5. /\ DOMAIN row' = {j \in DOMAIN row : ~(j >= last)}
      /\ \A i \in DOMAIN row' : row'[i] = row[i]
  BY <1>1 DEF DeleteSteps
<1>6. Fewer
  BY <1>5 DEF Fewer
<1>7. /\ Unique' /\ Done' \subseteq Done /\ Steps' <= Steps /\ Steps' \in Nat /\ Steps \in Nat
      /\ \A i \in DOMAIN row' : InPlace(row'[i].key, i)
  BY <1>6, FewerRows, DoneCounts DEF Orderly, Ordered
<1>8. status = "failed" /\ k # "reserve"
  BY <1>4, <1>2 DEF Orderly, Standing
<1>9. \A a \in DOMAIN approval : ~Pending(a)
  BY <1>8 DEF Orderly, Standing
<1>10. \A i \in DOMAIN row : i # last => row[i].status = "succeeded"
  <2>1. \A i \in DOMAIN row : row[i].status # "waiting_approval"
    BY <1>8 DEF Orderly, Standing
  <2>2. \A i \in DOMAIN row : row[i].status = "failed" => i = last
    BY <1>1 DEF Orderly, Standing, Failed
  <2> QED
    BY <1>4, <2>1, <2>2
<1>11. Settled'
  BY <1>1, <1>4, <1>5, <1>9, <1>10 DEF Settled, Pending
<1>12. k \notin Done'
  <2>1. \A i \in DOMAIN row' : i # last /\ i \in DOMAIN row /\ row'[i].key = row[i].key
    BY <1>4, <1>5
  <2> QED
    BY <1>4, <1>2, <2>1 DEF Done, Orderly, Ordered, Unique
<1>13. InPlace(k, last) /\ \A i \in DOMAIN row : InPlace(row[i].key, i)
  BY <1>4, <1>2 DEF Orderly, Ordered
<1>14. /\ Range(Arc) = Early \cup {"authorize", "reserve"} \cup Late /\ Gate \in Nat
       /\ "authorize" \notin Early /\ "reserve" \notin Early /\ Early \cap Late = {}
  BY ArcPlaces
\* What stood before the failed row stays.
<1>15. ASSUME NEW x \in Done, \A i \in DOMAIN row : row[i].key = x => i < last
       PROVE  x \in Done'
  <2>1. PICK i \in DOMAIN row : row[i].key = x
    BY <1>15 DEF Done
  <2>2. i \in DOMAIN row'
    BY <1>4, <1>5, <1>15, <2>1
  <2> QED
    BY <1>5, <2>1, <2>2 DEF Done
<1>16. k \in Late => last > Gate + 1
  BY <1>4, <1>13 DEF InPlace
<1>17. ASSUME last > Gate + 1
       PROVE  \A x \in Early \cup {"authorize", "reserve"} : x \in Done => x \in Done'
  <2>1. \A i \in DOMAIN row : row[i].key \in Early \cup {"authorize", "reserve"} => i < last
    BY <1>4, <1>13, <1>14, <1>17 DEF InPlace
  <2> QED
    BY <1>15, <2>1
<1>18. k \in Late => {"authorize", "reserve"} \subseteq Done'
  <2>1. k \in Late => {"authorize", "reserve"} \subseteq Done
    BY <1>4, <1>2 DEF Orderly, Ordered, Done
  <2> QED
    BY <1>16, <1>17, <2>1
<1>19. k \in Early => "authorize" \notin Done'
  <2>1. k \in Early => last <= Gate
    BY <1>4, <1>13 DEF InPlace
  <2>2. \A i \in DOMAIN row' : row'[i].key = "authorize" => i = Gate /\ i < last
    BY <1>4, <1>5, <1>13 DEF InPlace
  <2> QED
    BY <1>4, <1>14, <2>1, <2>2 DEF Done
<1>20. Sits(k, last)'
  <2>1. k \in Early \/ k \in Late
    BY <1>1, <1>4, <1>8, <1>14, <1>2
  <2>2. k \in Early => k \notin Late
    BY <1>14
  <2> HIDE DEF Late, InPlace
  <2> QED
    BY <1>1, <1>8, <1>12, <1>13, <1>18, <1>19, <1>2, <2>1, <2>2 DEF Sits
<1>21. OneCall'
  BY <1>3, <1>11, <1>20, AloneFits
<1>22. Ordered'
  <2>1. "reserve" \in Done' => Reserved'
    BY <1>1, <1>7 DEF Orderly, Ordered, Reserved
  <2>2. ASSUME "reserve" \in Done' PROVE last > Gate + 1
    <3>1. PICK i \in DOMAIN row' : row'[i].key = "reserve"
      BY <2>2 DEF Done
    <3>2. i = Gate + 1 /\ i < last
      BY <1>4, <1>5, <1>7, <3>1 DEF InPlace
    <3> QED
      BY <3>2
  <2>3. {"authorize", "reserve"} \subseteq Done' => Early \subseteq Done'
    <3>1. {"authorize", "reserve"} \subseteq Done' => Early \subseteq Done
      BY <1>7 DEF Orderly, Ordered
    <3> QED
      BY <1>17, <2>2, <3>1
  <2>4. Done' \cap Late # {} => {"authorize", "reserve"} \subseteq Done'
    <3>1. ASSUME NEW x \in Late, x \in Done'
          PROVE  {"authorize", "reserve"} \subseteq Done'
      <4>1. PICK i \in DOMAIN row' : row'[i].key = x
        BY <3>1 DEF Done
      <4>2. i > Gate + 1 /\ i < last /\ i \in Nat /\ last \in Nat
        BY <1>4, <1>5, <1>7, <3>1, <4>1 DEF InPlace
      <4>3. last > Gate + 1
        BY <1>14, <4>2
      <4>4. {"authorize", "reserve"} \subseteq Done
        BY <1>7, <3>1 DEF Orderly, Ordered
      <4> QED
        BY <1>17, <4>3, <4>4
    <3> QED
      BY <3>1
  <2> QED
    BY <1>7, <2>1, <2>3, <2>4 DEF Ordered
<1>23. Standing'
  <2>1. approval' = approval /\ \A a \in DOMAIN approval' : ~Pending(a)'
    BY <1>1, <1>9 DEF Pending
  <2>2. Failed' = {} /\ \A i \in DOMAIN row' : row'[i].status = "succeeded"
    BY <1>11 DEF Settled, Failed
  <2> QED
    BY <2>1, <2>2 DEF Standing
<1>24. Stale'
  <2>1. Passed' => Passed
    BY <1>5 DEF Passed
  <2>2. Authorized(Version)' = Authorized(Version)
    BY <1>1 DEF Authorized, Granted, Version
  <2> QED
    BY <1>7, <1>14, <2>1, <2>2 DEF Orderly, Stale
<1> QED
  BY <1>21, <1>22, <1>23, <1>24 DEF Orderly

\* A call records its step.
Written(c, st) ==
    LET k == call[c].key IN
    /\ Active(c) /\ WriteStep(c, st) /\ Leave(c)
    /\ st \in {"succeeded", "failed", "waiting_approval"}
    /\ st = "failed" => k # "reserve" /\ status' = "failed"
    /\ st = "waiting_approval" =>
          /\ k = "authorize" /\ status' = "awaiting_approval"
          /\ approval' = Append(approval, [version |-> Version, decision |-> "pending"])
    /\ st # "waiting_approval" => UNCHANGED approval
    /\ k = "authorize" /\ st = "succeeded" => ~plan[Version].asks
    /\ IF k = "strategy" THEN Version' = Version + 1 ELSE UNCHANGED plan
    /\ Reserved => Reserved'
    /\ k = "reserve" => Reserved'
    /\ \A j \in DocKinds, v \in 1 .. MaxPlans : action[j][v] # {} => action'[j][v] # {}
    /\ k \in DocKinds => /\ call[c].pc \in Engaged
                         /\ st # "failed" => action'[k][call[c].version] # {}
    /\ k = "watch" => st = "succeeded" /\ status' = "waiting"
    /\ status' = "awaiting_approval" => st = "waiting_approval" \/ UNCHANGED status
    /\ status' = "completed" =>
          UNCHANGED status \/ (k = "close" /\ AllVerified /\ UNCHANGED action)
    /\ UNCHANGED disrupted

LEMMA WriteKeeps ==
    ASSUME Base, Orderly, NEW c \in Calls, NEW st, Written(c, st)
    PROVE  Orderly'
<1>1. PICK k, s, x : k = call[c].key /\ s = call[c].seq /\ x = [key |-> k, status |-> st]
  OBVIOUS
<1>2. x.key = k /\ x.status = st
  BY <1>1
<1>3. /\ s \notin DOMAIN row
      /\ DOMAIN row' = DOMAIN row \cup {s} /\ row'[s] = x
      /\ \A i \in DOMAIN row : row'[i] = row[i]
  BY <1>1 DEF Written, WriteStep
<1>4. Settled /\ Sits(k, s)
  BY <1>1 DEF Written, Orderly, OneCall
<1>5. Ordered /\ Unique /\ Stale /\ \A i \in DOMAIN row : InPlace(row[i].key, i)
  BY DEF Orderly, Ordered
<1>6. k \in Range(Arc) /\ s \in Nat
  BY <1>1 DEF Written, Active, Base, GoodCalls, GoodCall, CallStates
<1>7. /\ Range(Arc) = Early \cup {"authorize", "reserve"} \cup Late /\ Gate \in Nat
      /\ "authorize" \notin Early /\ "reserve" \notin Early /\ Early \cap Late = {}
      /\ "strategy" \in Early
  BY ArcPlaces DEF Early
<1>8. Steps \in Nat /\ Steps' = Steps + 1
  BY <1>3, <1>5, DoneCounts, FS_AddElement DEF Base, Rows, Steps
<1>9. Done' = Done \cup {k}
  <2>1. \A y : y \in Done' <=> y \in Done \/ y = k
    BY <1>2, <1>3 DEF Done
  <2> QED
    BY <2>1
<1>10. k = "authorize" => "reserve" \notin Done /\ s = Gate
  <2>1. ASSUME k = "authorize", "reserve" \in Done PROVE FALSE
    <3>1. PICK i \in DOMAIN row : row[i].key = "reserve"
      BY <2>1 DEF Done
    <3>2. i = Gate + 1 /\ s = Gate + 1
      BY <1>4, <1>5, <2>1, <3>1 DEF InPlace, Sits
    <3> QED
      BY <1>3, <3>2
  <2> QED
    BY <1>4, <2>1 DEF Sits
<1>11. InPlace(k, s)
  BY <1>4, <1>7, <1>10 DEF Sits, InPlace, Late
<1>12. \A d \in Calls : ~Active(d)'
  <2>1. \A d \in Calls : call'[d] = IF d = c THEN NoCall ELSE call[d]
    BY DEF Written, Leave, Base, GoodCalls
  <2>2. \A d \in Calls : d # c => ~Active(d)
    BY DEF Written, Orderly, OneCall
  <2>3. NoCall.pc = "idle"
    BY DEF NoCall
  <2> QED
    BY <2>1, <2>2, <2>3 DEF Active
<1>13. OneCall'
  BY <1>12 DEF OneCall
<1>14. Ordered'
  <2>1. Unique'
    <3>1. \A i \in DOMAIN row : row[i].key # k
      BY <1>4 DEF Sits, Done
    <3> QED
      BY <1>2, <1>3, <1>5, <3>1 DEF Unique
  <2>2. \A i \in DOMAIN row' : InPlace(row'[i].key, i)
    BY <1>2, <1>3, <1>5, <1>11
  <2>3. "reserve" \in Done' => Reserved'
    BY <1>1, <1>5, <1>9 DEF Ordered, Written
  <2>4. {"authorize", "reserve"} \subseteq Done' => Early \subseteq Done'
    BY <1>4, <1>5, <1>9, <1>10 DEF Ordered, Sits
  <2>5. Done' \cap Late # {} => {"authorize", "reserve"} \subseteq Done'
    BY <1>4, <1>5, <1>9 DEF Ordered, Sits
  <2> QED
    BY <2>1, <2>2, <2>3, <2>4, <2>5 DEF Ordered
<1>15. Standing'
  <2>1. \A i \in DOMAIN row : row'[i].status = "succeeded"
    BY <1>3, <1>4 DEF Settled
  <2>2. /\ \A i, j \in Failed' : i = j
        /\ \A i \in DOMAIN row' :
              /\ row'[i].status = "waiting_approval" =>
                    row'[i].key = "authorize" /\ status' = "awaiting_approval"
              /\ row'[i].status = "failed" => row'[i].key # "reserve" /\ status' = "failed"
    BY <1>1, <1>2, <1>3, <2>1 DEF Written, Failed
  <2>3. CASE st # "waiting_approval"
    <3>1. approval' = approval /\ \A a \in DOMAIN approval' : ~Pending(a)'
      BY <1>4, <2>3 DEF Written, Settled, Pending
    <3> QED
      BY <2>2, <3>1 DEF Standing
  <2>4. CASE st = "waiting_approval"
    <3> DEFINE r == [version |-> Version, decision |-> "pending"]
    <3>1. /\ status' = "awaiting_approval" /\ plan' = plan
          /\ approval' = Append(approval, r)
      BY <1>1, <2>4 DEF Written
    <3>2. approval \in Seq([version : 1 .. Version, decision : Decisions])
      BY BasePlanning DEF Planning
    <3>3. r.version = Version
      OBVIOUS
    <3> HIDE DEF r
    <3>4. /\ DOMAIN approval = 1 .. Len(approval) /\ Len(approval) \in Nat
          /\ DOMAIN approval' = 1 .. Len(approval) + 1
          /\ \A a \in 1 .. Len(approval) : approval'[a] = approval[a]
          /\ approval'[Len(approval) + 1] = r
      BY <3>1, <3>2
    <3>5. \A a \in DOMAIN approval' : Pending(a)' => a = Len(approval) + 1
      BY <1>4, <3>4 DEF Settled, Pending
    <3>6. Version' = Version
      BY <3>1 DEF Version
    <3> QED
      BY <2>2, <3>1, <3>3, <3>4, <3>5, <3>6 DEF Standing
  <2> QED
    BY <2>3, <2>4
<1>16. Stale'
  <2> SUFFICES ASSUME Passed', ~Authorized(Version)' PROVE Steps' < Gate
    BY DEF Stale
  <2>1. k # "authorize"
    <3>1. ASSUME k = "authorize" PROVE FALSE
      <4>1. PICK i \in DOMAIN row' : row'[i].key = "authorize" /\ row'[i].status = "succeeded"
        BY DEF Passed
      <4>2. i = s
        BY <1>3, <1>4, <3>1, <4>1 DEF Sits, Done
      <4>3. st = "succeeded"
        BY <1>2, <1>3, <4>1, <4>2
      <4>4. plan' = plan /\ ~plan[Version].asks
        BY <1>1, <3>1, <4>3 DEF Written
      <4> QED
        BY <4>4 DEF Authorized, Version
    <3> QED
      BY <3>1
  <2>2. Passed /\ "authorize" \in Done
    BY <1>2, <1>3, <2>1 DEF Passed, Done
  <2>3. UNCHANGED approval
    BY <1>1, <2>1 DEF Written
  <2>4. k # "strategy" => ~Authorized(Version)
    BY <1>1, <2>3 DEF Written, Authorized, Granted, Version
  <2>5. k \notin Late
    <3>1. k \in Late => Authorized(Version)
      BY <1>4, <1>5, PassedForThisPlan DEF Sits
    <3> QED
      BY <1>7, <2>4, <3>1
  <2>6. k # "reserve"
    <3>1. k = "reserve" => Steps >= Gate
      BY <1>4, <1>5, <2>2, HowFar DEF Sits
    <3> QED
      BY <1>5, <1>7, <1>8, <2>2, <2>4, <3>1 DEF Stale
  <2>7. k \in Early
    BY <1>6, <1>7, <2>1, <2>5, <2>6
  <2>8. "reserve" \notin Done
    BY <1>4, <1>5, <2>2, <2>7 DEF Ordered, Sits
  <2>9. s = Steps + 1 /\ s <= Gate
    BY <1>4, <1>11, <2>2, <2>7, <2>8 DEF Sits, InPlace
  <2>10. s # Gate
    BY <1>3, <1>5, <2>2 DEF InPlace, Done
  <2> QED
    BY <1>7, <1>8, <2>9, <2>10
<1> QED
  BY <1>13, <1>14, <1>15, <1>16 DEF Orderly

\* Rewinding deletes every step from the gate on; a call in flight is one of the
\* steps before it, or the gate itself.
LEMMA RewindKeeps ==
    ASSUME Base, Orderly, NEW k \in {"sourcing", "strategy", "authorize"}, Rewind(k),
           UNCHANGED <<call, action>>, status # "failed",
           \A a \in DOMAIN approval' : ~Pending(a)',
           \A d \in Calls : Active(d) => ~Reserved
    PROVE  Orderly'
<1>1. {"authorize", "reserve"} \cup Late \subseteq From(k)
  BY RewindsPastGate
<1>2. /\ DOMAIN row' \subseteq DOMAIN row
      /\ \A i \in DOMAIN row' : row'[i] = row[i] /\ row[i].key \notin From(k)
  BY DEF Rewind, DeleteSteps
<1>3. Fewer
  BY <1>2 DEF Fewer
<1>4. /\ Unique' /\ Done' \subseteq Done
      /\ \A i \in DOMAIN row' : InPlace(row'[i].key, i)
  BY <1>3, FewerRows DEF Orderly
<1>5. Done' \cap ({"authorize", "reserve"} \cup Late) = {}
  BY <1>1, <1>2 DEF Done
<1>6. \A i \in DOMAIN row' : row'[i].status = "succeeded"
  <2>1. \A i \in DOMAIN row : row[i].status \in {"succeeded", "failed", "waiting_approval"}
    BY DEF Base, Rows, GoodRow
  <2> QED
    BY <1>1, <1>2, <2>1 DEF Orderly, Standing
<1>7. Settled'
  BY <1>6 DEF Settled
<1>8. ASSUME NEW c \in Calls, Active(c)' PROVE Sits(call[c].key, call[c].seq)'
  <2>1. PICK j, s : j = call[c].key /\ s = call[c].seq
    BY DEF Active
  <2>2. call' = call /\ Active(c) /\ ~Reserved
    BY <1>8 DEF Active
  <2>3. Sits(j, s) /\ "reserve" \notin Done
    BY <2>1, <2>2 DEF Orderly, OneCall, Ordered
  <2>4. Sits(j, s)'
    BY <1>4, <1>5, <2>3 DEF Sits
  <2> QED
    BY <2>1, <2>2, <2>4
<1>9. OneCall'
  <2>1. \A c, d \in Calls : Active(c)' /\ Active(d)' => c = d
    BY DEF Orderly, OneCall, Active
  <2>2. \A c \in Calls : Active(c)' => Settled' /\ Sits(call[c].key, call[c].seq)'
    BY <1>7, <1>8
  <2> QED
    BY <2>1, <2>2 DEF OneCall
<1>10. Ordered'
  BY <1>4, <1>5 DEF Ordered
<1>11. Standing'
  BY <1>6, <1>7 DEF Standing, Settled, Failed
<1>12. Stale'
  <2>1. ~Passed'
    BY <1>1, <1>2 DEF Passed
  <2> QED
    BY <2>1 DEF Stale
<1> QED
  BY <1>9, <1>10, <1>11, <1>12 DEF Orderly

\* While a request stands no call is in flight and nothing failed, and once it is
\* answered none stands.
LEMMA WhileAsking ==
    ASSUME Base, Orderly, NEW a \in DOMAIN approval, NEW d \in Decisions \ {"pending"},
           Decision(a, d)
    PROVE  /\ \A c \in Calls : ~Active(c)
           /\ status = "awaiting_approval" /\ approval[a].version = Version
           /\ approval' \in Seq([version : 1 .. Version, decision : Decisions])
           /\ DOMAIN approval' = DOMAIN approval
           /\ approval'[a] = [version |-> Version, decision |-> d]
           /\ \A b \in DOMAIN approval' : ~Pending(b)'
<1> DEFINE x == [approval[a] EXCEPT !.decision = d]
<1>1. Pending(a) /\ approval' = [approval EXCEPT ![a] = x]
  BY DEF Decision
<1>2. approval[a] \in [version : 1 .. Version, decision : Decisions]
  BY BasePlanning
<1>3. /\ \A c \in Calls : ~Active(c)
      /\ status = "awaiting_approval" /\ approval[a].version = Version
      /\ \A b \in DOMAIN approval : Pending(b) => b = a
  BY <1>1 DEF Orderly, OneCall, Settled, Standing
<1>4. x = [version |-> Version, decision |-> d]
  BY <1>2, <1>3
<1>5. x \in [version : 1 .. Version, decision : Decisions]
  BY <1>2
<1>6. approval \in Seq([version : 1 .. Version, decision : Decisions])
  BY BasePlanning DEF Planning
<1>7. x.decision # "pending"
  BY <1>4
<1> HIDE DEF x
<1>8. /\ DOMAIN approval' = DOMAIN approval
      /\ \A b \in DOMAIN approval : approval'[b] = IF b = a THEN x ELSE approval[b]
  BY <1>1
<1>9. approval' \in Seq([version : 1 .. Version, decision : Decisions])
  BY <1>1, <1>5, <1>6, ExceptSeq, LenProperties
<1>10. \A b \in DOMAIN approval' : ~Pending(b)'
  BY <1>3, <1>7, <1>8 DEF Pending
<1> QED
  BY <1>3, <1>4, <1>8, <1>9, <1>10

\* An answer settles the row of the step that asked, for the plan in force.
LEMMA AnswerKeeps ==
    ASSUME Base, Orderly, NEW a \in DOMAIN approval, Approve(a) \/ Reject(a)
    PROVE  Orderly'
<1>1. PICK d \in {"approved", "rejected"}, st \in {"succeeded", "failed"} :
         /\ Decision(a, d) /\ row' = Answered(st)
         /\ st = "failed" => status' = "failed"
         /\ st = "succeeded" => d = "approved" /\ status' = "executing"
         /\ UNCHANGED <<plan, action, call>>
  BY DEF Approve, Reject
<1>2. /\ \A c \in Calls : ~Active(c)
      /\ status = "awaiting_approval" /\ DOMAIN approval' = DOMAIN approval
      /\ approval'[a] = [version |-> Version, decision |-> d]
      /\ \A b \in DOMAIN approval' : ~Pending(b)'
  BY <1>1, WhileAsking DEF Decisions
<1>3. /\ DOMAIN row' = DOMAIN row
      /\ \A i \in DOMAIN row : /\ row'[i].key = row[i].key
                               /\ row'[i].status = IF row[i].key = "authorize" THEN st
                                                   ELSE row[i].status
  <2>1. \A i \in DOMAIN row : GoodRow(row[i], Version)
    BY DEF Base, Rows
  <2>2. /\ DOMAIN row' = DOMAIN row
        /\ \A i \in DOMAIN row : row'[i] = IF row[i].key = "authorize"
                                           THEN [row[i] EXCEPT !.status = st] ELSE row[i]
    BY <1>1 DEF Answered
  <2> QED
    BY <2>1, <2>2 DEF GoodRow
<1>4. \A i \in DOMAIN row' :
          row'[i].status = IF row'[i].key = "authorize" THEN st ELSE "succeeded"
  <2>1. \A i \in DOMAIN row : row[i].status \in {"succeeded", "failed", "waiting_approval"}
    BY DEF Base, Rows, GoodRow
  <2>2. \A i \in DOMAIN row : row[i].status # "failed"
    BY <1>2 DEF Orderly, Standing
  <2>3. \A i \in DOMAIN row : row[i].status = "waiting_approval" => row[i].key = "authorize"
    BY DEF Orderly, Standing
  <2> QED
    BY <1>3, <2>1, <2>2, <2>3
<1>5. Fewer /\ Done' = Done
  BY <1>3 DEF Fewer, Done
<1>6. Unique' /\ \A i \in DOMAIN row' : InPlace(row'[i].key, i)
  BY <1>5, FewerRows DEF Orderly
<1>7. OneCall'
  BY <1>1, <1>2 DEF OneCall, Active
<1>8. Ordered'
  BY <1>1, <1>5, <1>6 DEF Orderly, Ordered, Reserved
<1>9. Standing'
  BY <1>1, <1>2, <1>4, <1>6 DEF Standing, Failed, Unique
<1>10. Stale'
  <2>1. st = "failed" => ~Passed'
    BY <1>4 DEF Passed
  <2>2. Version' = Version
    BY <1>1 DEF Version
  <2>3. st = "succeeded" => Authorized(Version)'
    BY <1>1, <1>2, <2>2 DEF Authorized, Granted
  <2> QED
    BY <1>1, <2>1, <2>3 DEF Stale
<1> QED
  BY <1>7, <1>8, <1>9, <1>10 DEF Orderly

\* The steps that record something.
LEMMA WritesAre ==
    ASSUME Base, NEW c \in Calls,
           \/ Observe(c) \/ Publish(c) \/ Critique(c) \/ Authorize(c) \/ Reserve(c)
           \/ Unresolved(c) \/ Record(c) \/ Watch(c) \/ (Close(c) /\ row' # row)
    PROVE  \E st : Written(c, st)
<1>1. /\ action \in [ActionKinds -> [1 .. MaxPlans -> SUBSET {"verified", "failed"}]]
      /\ GoodCall(call[c], Version) /\ Version \in Nat /\ Version <= MaxPlans /\ MaxPlans \in Nat
  BY BasePlanning DEF Base, TypeOK, GoodCalls, Planning
<1>2. UNCHANGED action =>
         /\ Reserved => Reserved'
         /\ \A j \in DocKinds, v \in 1 .. MaxPlans :
               action[j][v] # {} => action'[j][v] # {}
  BY DEF Reserved
<1>3. CASE Observe(c)
  <2>1. call[c].key \notin CommitKeys
    BY <1>3, ArcKeys DEF Observe, Contains, Range
  <2>2. PICK st \in {"succeeded", "failed"} : /\ WriteStep(c, st)
                                              /\ st = "failed" => status' = "failed"
    BY <1>3 DEF Observe
  <2> QED
    BY <1>2, <1>3, <2>1, <2>2 DEF Written, Observe, CommitKeys, DocKinds, worldVars, Active
<1>4. CASE Publish(c)
  <2>1. call[c].key = "strategy"
    BY <1>1, <1>4 DEF Publish, GoodCall
  <2>2. Version' = Version + 1
    <3>1. \E x : plan' = Append(plan, x)
      BY <1>4 DEF Publish
    <3>2. plan \in Seq(Plans)
      BY BasePlanning DEF Planning
    <3> QED
      BY <3>1, <3>2 DEF Version
  <2> QED
    BY <1>2, <1>4, <2>1, <2>2 DEF Written, Publish, DocKinds, worldVars, Active
<1>5. CASE Critique(c)
  <2>1. PICK st \in {"succeeded", "failed"} : /\ WriteStep(c, st)
                                              /\ st = "failed" => status' = "failed"
    BY <1>5 DEF Critique
  <2> QED
    BY <1>2, <1>5, <2>1 DEF Written, Critique, Running, DocKinds, worldVars, Active
<1>6. CASE Authorize(c)
  <2>1. CASE plan[Version].asks
    BY <1>2, <1>6, <2>1 DEF Written, Authorize, Running, DocKinds, worldVars, Active
  <2>2. CASE ~plan[Version].asks
    BY <1>2, <1>6, <2>2 DEF Written, Authorize, Running, DocKinds, worldVars, Active
  <2> QED
    BY <2>1, <2>2
<1>7. CASE Reserve(c)
  <2>1. call[c].key = "reserve" /\ call[c].pc = "run"
    BY <1>7 DEF Reserve, Running
  <2>2. "reserve" \in Later
    BY CommitmentKeys DEF Later, CommitKeys
  <2>3. Version \in 1 .. MaxPlans
    BY <1>1, <2>1, <2>2 DEF GoodCall
  <2>4. "verified" \in action'["reserve"][Version]
    BY <1>1, <1>7, <2>3 DEF Reserve, ActionKinds
  <2>5. Reserved'
    BY <2>3, <2>4 DEF Reserved
  <2>6. \A j \in DocKinds : action'[j] = action[j]
    BY <1>1, <1>7 DEF Reserve, DocKinds, ActionKinds
  <2> QED
    BY <1>7, <2>1, <2>5, <2>6 DEF Written, Reserve, DocKinds, worldVars, Active
<1>8. CASE Unresolved(c)
  BY <1>2, <1>8 DEF Written, Unresolved, Raising, Engaged, worldVars, Active
<1>9. CASE Record(c)
  <2>1. call[c].key \in DocKinds /\ call[c].pc = "raise"
    BY <1>1, <1>9 DEF Record, Recording, GoodCall
  <2>2. PICK holds \in ReadBack(c), rows \in SUBSET {"verified", "failed"} :
           /\ action' = [action EXCEPT ![call[c].key][call[c].version] = rows]
           /\ rows # {}
           /\ WriteStep(c, IF holds THEN "succeeded" ELSE "failed")
           /\ status' = IF holds THEN status ELSE "failed"
    BY <1>9, RecordsOutcome
  <2>3. action'["reserve"] = action["reserve"]
    BY <1>1, <2>1, <2>2 DEF DocKinds, ActionKinds
  <2>4. Reserved => Reserved'
    BY <2>3 DEF Reserved
  <2>5. PICK st \in {"succeeded", "failed"} :
           /\ WriteStep(c, st)
           /\ status' = IF st = "failed" THEN "failed" ELSE status
    BY <2>2
  <2>6. PICK k, v, w : k = call[c].key /\ v = call[c].version /\ w # {}
                      /\ action' = [action EXCEPT ![k][v] = w]
    BY <2>2
  <2>7. k \in ActionKinds /\ v \in 1 .. MaxPlans
    BY <1>1, <2>1, <2>6 DEF GoodCall, ActionKinds
  <2>8. /\ action'[k][v] = w
        /\ \A j \in DocKinds, u \in 1 .. MaxPlans :
              action'[j][u] = IF j = k /\ u = v THEN w ELSE action[j][u]
    BY <1>1, <2>6, <2>7 DEF DocKinds, ActionKinds
  <2>9. \A j \in DocKinds, u \in 1 .. MaxPlans :
            action[j][u] # {} => action'[j][u] # {}
    BY <2>6, <2>8
  <2>10. action'[call[c].key][call[c].version] # {}
    BY <2>6, <2>8
  <2> QED
    BY <1>9, <2>1, <2>4, <2>5, <2>9, <2>10 DEF Written, Record, DocKinds, Engaged, Active
<1>10. CASE Watch(c)
  BY <1>2, <1>10 DEF Written, Watch, Running, DocKinds, worldVars, Active
<1>11. CASE Close(c) /\ row' # row
  <2>1. PICK st \in {"succeeded", "failed"} :
           /\ WriteStep(c, st)
           /\ status' = IF st = "failed" THEN "failed" ELSE "completed"
           /\ st = "succeeded" => AllVerified
    BY <1>11 DEF Close, Verdicts
  <2> QED
    BY <1>2, <1>11, <2>1 DEF Written, Close, Running, DocKinds, worldVars, Active
<1> QED
  BY <1>3, <1>4, <1>5, <1>6, <1>7, <1>8, <1>9, <1>10, <1>11

\* The steps of a call that record nothing.
LEMMA StillsAre ==
    ASSUME Base, NEW c \in Calls,
           \/ Propose(c) \/ NoCandidate(c) \/ Gather(c) \/ PortDone(c) \/ PortRefused(c)
           \/ RecordClash(c) \/ Clash(c) \/ Crash(c) \/ (Close(c) /\ row' = row)
           \/ \E p \in Vendors \cup MakeLines : Claim(c, p) \/ Replay(c, p) \/ Yield(c, p)
    PROVE  Still
<1>1. call \in [Calls -> CallStates]
  BY DEF Base, GoodCalls
<1>2. /\ UNCHANGED <<row, plan, approval, action, disrupted>> /\ Active(c)
      /\ UNCHANGED status \/ status' = "waiting"
  <2>1. Close(c) /\ row' = row => UNCHANGED status \/ status' = "waiting"
    <3>1. ASSUME NEW st, WriteStep(c, st) PROVE row' # row
      BY <3>1 DEF WriteStep
    <3> QED
      BY <3>1 DEF Close
  <2> QED
    BY <2>1 DEF Propose, NoCandidate, Gather, PortDone, PortRefused, RecordClash, Clash, Crash,
       Close, Claim, Replay, Yield, missionVars, worldVars, Running, Raising, Recording, Active
<1>3. ASSUME NEW x, call' = [call EXCEPT ![c] = x],
             \/ x.pc = "idle"
             \/ /\ x.key = call[c].key /\ x.seq = call[c].seq
                /\ \/ x.pc \notin Engaged \/ x.version = Version
                   \/ call[c].pc \in Engaged /\ x.version = call[c].version
      PROVE  Still
  <2>1. \A d \in Calls : call'[d] = IF d = c THEN x ELSE call[d]
    BY <1>1, <1>3
  <2> QED
    BY <1>2, <1>3, <2>1 DEF Still, Active, Engaged
<1>4. ASSUME Leave(c) PROVE Still
  <2>1. NoCall.pc = "idle"
    BY DEF NoCall
  <2> QED
    BY <1>3, <1>4, <2>1 DEF Leave
<1>5. CASE Propose(c)
  <2>1. PICK s \in Strategies : call' = [call EXCEPT ![c].pc = "publish", ![c].choice = s,
                                                     ![c].asks = tier \in AskAt[s]]
    BY <1>5 DEF Propose
  <2> DEFINE asks == tier \in AskAt[s]
             x == [call[c] EXCEPT !.pc = "publish", !.choice = s, !.asks = asks]
  <2>2. call' = [call EXCEPT ![c] = x]
    BY <1>1, <2>1
  <2> HIDE DEF asks
  <2>3. x.key = call[c].key /\ x.seq = call[c].seq /\ x.pc \notin Engaged
    BY <1>1 DEF CallStates, Engaged
  <2> HIDE DEF x
  <2> QED
    BY <1>3, <2>2, <2>3
<1>6. CASE Gather(c)
  <2> DEFINE armed == call[c].key = "procure" /\ fault = "armed"
             todo == IF armed THEN {} ELSE Parties(call[c].key, Version)
             x == [call[c] EXCEPT !.pc = "raise", !.version = Version, !.armed = armed,
                                  !.todo = todo]
  <2>1. call' = [call EXCEPT ![c] = x]
    BY <1>6 DEF Gather
  <2> HIDE DEF todo, armed
  <2>2. x.key = call[c].key /\ x.seq = call[c].seq /\ x.version = Version
    BY <1>1 DEF CallStates
  <2> HIDE DEF x
  <2> QED
    BY <1>3, <2>1, <2>2
<1>7. ASSUME NEW p, Claim(c, p) PROVE Still
  <2> DEFINE x == [call[c] EXCEPT !.pc = "port", !.todo = @ \ {p}, !.choice = p]
  <2>1. call' = [call EXCEPT ![c] = x] /\ call[c].pc \in Engaged
    BY <1>7 DEF Claim, Raising, Engaged
  <2>2. x.key = call[c].key /\ x.seq = call[c].seq /\ x.version = call[c].version
    BY <1>1 DEF CallStates
  <2> HIDE DEF x
  <2> QED
    BY <1>3, <2>1, <2>2
<1>8. ASSUME NEW p, Replay(c, p) PROVE Still
  <2> DEFINE x == [call[c] EXCEPT !.todo = @ \ {p}]
             y == [call[c] EXCEPT !.failed = TRUE]
  <2>1. /\ call' = [call EXCEPT ![c] = x] \/ call' = [call EXCEPT ![c] = y]
        /\ call[c].pc \in Engaged
    BY <1>8 DEF Replay, Raising, Engaged
  <2>2. /\ x.key = call[c].key /\ x.seq = call[c].seq /\ x.version = call[c].version
        /\ y.key = call[c].key /\ y.seq = call[c].seq /\ y.version = call[c].version
    BY <1>1 DEF CallStates
  <2> HIDE DEF x, y
  <2> QED
    BY <1>3, <2>1, <2>2
<1>9. ASSUME PortDone(c) \/ PortRefused(c) PROVE Still
  <2> DEFINE x == [call[c] EXCEPT !.pc = "raise"]
             y == [call[c] EXCEPT !.pc = "raise", !.failed = TRUE]
  <2>1. /\ call' = [call EXCEPT ![c] = x] \/ call' = [call EXCEPT ![c] = y]
        /\ call[c].pc \in Engaged
    BY <1>9 DEF PortDone, PortRefused, Goto, Engaged
  <2>2. /\ x.key = call[c].key /\ x.seq = call[c].seq /\ x.version = call[c].version
        /\ y.key = call[c].key /\ y.seq = call[c].seq /\ y.version = call[c].version
    BY <1>1 DEF CallStates
  <2> HIDE DEF x, y
  <2> QED
    BY <1>3, <2>1, <2>2
<1>10. ASSUME \/ NoCandidate(c) \/ RecordClash(c) \/ Clash(c) \/ Crash(c) \/ Close(c)
              \/ \E p : Yield(c, p)
       PROVE  Still
  BY <1>4, <1>10 DEF NoCandidate, RecordClash, Clash, Crash, Close, Yield
<1> QED
  BY <1>5, <1>6, <1>7, <1>8, <1>9, <1>10

\* Whatever is done to a mission whose calls come one at a time, and whose
\* suppliers keep their word, it stays in order.
LEMMA OrderlyNext ==
    ASSUME Base, Orderly, [Next]_vars, clicks = 0, clicks' = 0, ~disrupted'
    PROVE  Orderly'
<1>1. ASSUME NEW c \in Calls, Advance(c) \/ Retry(c) PROVE Orderly'
  BY <1>1, AdvanceKeeps, RetryKeeps
<1>2. ASSUME NEW c \in Calls,
             \/ Observe(c) \/ Publish(c) \/ Critique(c) \/ Authorize(c) \/ Reserve(c)
             \/ Unresolved(c) \/ Record(c) \/ Watch(c) \/ (Close(c) /\ row' # row)
      PROVE  Orderly'
  BY <1>2, WritesAre, WriteKeeps
<1>3. ASSUME NEW c \in Calls,
             \/ Propose(c) \/ NoCandidate(c) \/ Gather(c) \/ PortDone(c) \/ PortRefused(c)
             \/ RecordClash(c) \/ Clash(c) \/ Crash(c) \/ (Close(c) /\ row' = row)
             \/ \E p \in Vendors \cup MakeLines : Claim(c, p) \/ Replay(c, p) \/ Yield(c, p)
      PROVE  Orderly'
  BY <1>3, StillsAre, StillKeeps
<1>4. ASSUME NEW a \in DOMAIN approval, TryAnother(a) PROVE Orderly'
  <2>1. Decision(a, "another") /\ Rewind("strategy") /\ UNCHANGED <<call, action>>
    BY <1>4 DEF TryAnother
  <2>2. /\ \A c \in Calls : ~Active(c)
        /\ status = "awaiting_approval" /\ \A b \in DOMAIN approval' : ~Pending(b)'
    BY <2>1, WhileAsking DEF Decisions
  <2> QED
    BY <2>1, <2>2, RewindKeeps
<1>5. ASSUME Upload \/ \E t \in Tiers : SetAutonomy(t) PROVE Orderly'
  <2>1. PICK k \in {"sourcing", "authorize"} : Rewind(k)
    BY <1>5 DEF Upload, SetAutonomy
  <2>2. /\ Withdraw /\ UNCHANGED <<call, action>> /\ status \notin Closed /\ ~HasActed
    BY <1>5 DEF Upload, SetAutonomy
  <2>3. status # "failed" /\ ~Reserved
    BY <2>2 DEF Closed, HasActed, Reserved, ActionKinds
  <2>4. \A a \in DOMAIN approval' : ~Pending(a)'
    <3>1. \A a \in DOMAIN approval :
              approval[a] \in [version : 1 .. Version, decision : Decisions]
      BY BasePlanning
    <3>2. /\ DOMAIN approval' = DOMAIN approval
          /\ \A a \in DOMAIN approval : approval'[a] =
                IF Pending(a) THEN [approval[a] EXCEPT !.decision = "withdrawn"] ELSE approval[a]
      BY <2>2 DEF Withdraw
    <3> QED
      BY <3>1, <3>2 DEF Pending
  <2> QED
    BY <2>1, <2>2, <2>3, <2>4, RewindKeeps
<1>6. ASSUME ArmFault \/ UNCHANGED vars PROVE Orderly'
  <2>1. Still
    BY <1>6 DEF ArmFault, vars, missionVars, worldVars, Still, Active, Engaged
  <2> QED
    BY <2>1, StillKeeps
<1>7. ~Disrupt
  BY DEF Disrupt
<1> QED
  BY <1>1, <1>2, <1>3, <1>4, <1>5, <1>6, <1>7, AnswerKeeps DEF Next, Step, Person

\* An approval that was given is never taken back.
LEMMA ApprovalStays ==
    ASSUME Base, [Next]_vars, NEW a \in DOMAIN approval, approval[a].decision = "approved"
    PROVE  a \in DOMAIN approval' /\ approval'[a] = approval[a]
<1>1. /\ approval \in Seq([version : 1 .. Version, decision : Decisions])
      /\ ~Pending(a)
  BY BasePlanning DEF Planning, Pending
<1>2. ASSUME UNCHANGED approval PROVE a \in DOMAIN approval' /\ approval'[a] = approval[a]
  BY <1>2
<1>3. ASSUME NEW c \in Calls, Authorize(c)
      PROVE  a \in DOMAIN approval' /\ approval'[a] = approval[a]
  <2> DEFINE x == [version |-> Version, decision |-> "pending"]
  <2>1. UNCHANGED approval \/ approval' = Append(approval, x)
    BY <1>3 DEF Authorize
  <2>2. a \in 1 .. Len(approval) /\ Len(approval) \in Nat
    BY <1>1, LenProperties, Zenon
  <2> HIDE DEF x
  <2>3. /\ DOMAIN Append(approval, x) = 1 .. Len(approval) + 1
        /\ \A b \in 1 .. Len(approval) : Append(approval, x)[b] = approval[b]
    BY <1>1
  <2> QED
    BY <2>1, <2>2, <2>3
<1>4. ASSUME NEW b \in DOMAIN approval, NEW d, Decision(b, d)
      PROVE  a \in DOMAIN approval' /\ approval'[a] = approval[a]
  BY <1>1, <1>4 DEF Decision
<1>5. ASSUME Withdraw PROVE a \in DOMAIN approval' /\ approval'[a] = approval[a]
  BY <1>1, <1>5 DEF Withdraw
<1>6. ASSUME NEW c \in Calls,
             \/ Advance(c) \/ Retry(c) \/ Crash(c) \/ Observe(c) \/ Propose(c)
             \/ NoCandidate(c) \/ Publish(c) \/ Critique(c) \/ Reserve(c) \/ Gather(c)
             \/ Unresolved(c) \/ PortDone(c) \/ PortRefused(c) \/ Record(c)
             \/ RecordClash(c) \/ Watch(c) \/ Close(c) \/ Clash(c)
             \/ \E p \in Vendors \cup MakeLines : Claim(c, p) \/ Replay(c, p) \/ Yield(c, p)
      PROVE  UNCHANGED approval
  BY <1>6 DEF Advance, Retry, Crash, Observe, Propose, NoCandidate, Publish, Critique,
     Reserve, Gather, Unresolved, PortDone, PortRefused, Record, RecordClash, Watch, Close,
     Clash, Claim, Replay, Yield, missionVars
<1>7. ASSUME Disrupt \/ ArmFault \/ UNCHANGED vars PROVE UNCHANGED approval
  BY <1>7 DEF Disrupt, ArmFault, vars, missionVars
<1>8. ASSUME NEW b \in DOMAIN approval, Approve(b) \/ Reject(b) \/ TryAnother(b)
      PROVE  \E d : Decision(b, d)
  BY <1>8 DEF Approve, Reject, TryAnother
<1>9. ASSUME Upload \/ \E t \in Tiers : SetAutonomy(t) PROVE Withdraw
  BY <1>9 DEF Upload, SetAutonomy
<1> QED
  BY <1>2, <1>3, <1>4, <1>5, <1>6, <1>7, <1>8, <1>9 DEF Next, Step, Person

LEMMA AuthorityStays ==
    ASSUME Base, [Next]_vars, NEW v \in 1 .. Version, Authorized(v)
    PROVE  v \in 1 .. Version' /\ Authorized(v)'
<1>1. v \in 1 .. Version' /\ plan'[v].asks = plan[v].asks
  BY PlansGrow, BasePlanning
<1>2. Granted(v) => Granted(v)'
  <2> SUFFICES ASSUME Granted(v) PROVE Granted(v)'
    OBVIOUS
  <2>1. PICK a \in DOMAIN approval : approval[a] = [version |-> v, decision |-> "approved"]
    BY DEF Granted
  <2>2. approval[a].decision = "approved"
    BY <2>1
  <2>3. a \in DOMAIN approval' /\ approval'[a] = approval[a]
    BY <2>2, ApprovalStays
  <2> QED
    BY <2>1, <2>3 DEF Granted
<1> QED
  BY <1>1, <1>2 DEF Authorized

\* Documents are raised, and have been raised, for authorised plans only.
Paid ==
    /\ \A c \in Calls : call[c].pc \in Engaged => Authorized(call[c].version)
    /\ \A d \in Docs : raised[d] > 0 => d[2] \in 1 .. Version /\ Authorized(d[2])

LEMMA PaidNext ==
    ASSUME Keyed, Orderly, Paid, [Next]_vars
    PROVE  Paid'
<1> DEFINE Fine(v) ==
             /\ v \in 1 .. Version'
             /\ plan'[v].asks => \E a \in DOMAIN approval' :
                                   approval'[a] = [version |-> v, decision |-> "approved"]
<1>1. /\ Base /\ call \in [Calls -> CallStates] /\ raised \in [Docs -> Nat]
      /\ raised' \in [Docs -> Nat]
  BY BaseNext DEF Keyed, Base, TypeOK
<1>2. ASSUME NEW v \in 1 .. Version, Authorized(v) PROVE Fine(v)
  BY <1>1, <1>2, AuthorityStays DEF Authorized, Granted
<1>3. \A d \in Docs : raised[d] > 0 => Fine(d[2])
  BY <1>2 DEF Paid
<1>4. \A c \in Calls : call[c].pc \in Engaged => Fine(call[c].version)
  <2>1. \A c \in Calls : call[c].pc \in Engaged => call[c].version \in 1 .. Version
    BY <1>1 DEF Base, GoodCalls, GoodCall, Engaged
  <2> QED
    BY <1>2, <2>1 DEF Paid
<1>5. ASSUME \A d \in Docs : raised'[d] > 0 => Fine(d[2]),
             \A c \in Calls : call'[c].pc \in Engaged => Fine(call'[c].version)
      PROVE  Paid'
  BY <1>5 DEF Paid, Authorized, Granted
<1> HIDE DEF Fine
<1>6. ASSUME UNCHANGED raised PROVE \A d \in Docs : raised'[d] > 0 => Fine(d[2])
  BY <1>3, <1>6
<1>7. CASE Quiet
  BY <1>4, <1>5, <1>6, <1>7 DEF Quiet
<1>8. ASSUME NEW c \in Calls, NEW x, call' = [call EXCEPT ![c] = x],
             x.pc \in Engaged => Fine(x.version)
      PROVE  \A d \in Calls : call'[d].pc \in Engaged => Fine(call'[d].version)
  <2>1. \A d \in Calls : call'[d] = IF d = c THEN x ELSE call[d]
    BY <1>1, <1>8
  <2> QED
    BY <1>4, <1>8, <2>1
<1>9. ASSUME NEW c \in Calls, Gather(c) PROVE Paid'
  <2> DEFINE armed == call[c].key = "procure" /\ fault = "armed"
             todo == IF armed THEN {} ELSE Parties(call[c].key, Version)
             x == [call[c] EXCEPT !.pc = "raise", !.version = Version, !.armed = armed,
                                  !.todo = todo]
  <2>1. /\ call' = [call EXCEPT ![c] = x] /\ UNCHANGED raised
        /\ call[c].pc = "run" /\ call[c].key \in DocKinds
    BY <1>9 DEF Gather
  <2> HIDE DEF todo, armed
  <2>2. x.version = Version
    BY <1>1 DEF CallStates
  <2> HIDE DEF x
  <2>3. call[c].key \in Late /\ call[c].key \in Later
    BY <2>1, CommitmentKeys DEF DocKinds, Late, Later, CommitKeys
  <2>4. Version \in 1 .. Version
    BY <1>1, <2>3, BasePlanning DEF Base, GoodCalls, GoodCall
  <2>5. Settled /\ {"authorize", "reserve"} \subseteq Done
    <3>1. Active(c)
      BY <2>1 DEF Active
    <3> QED
      BY <2>3, <3>1 DEF Orderly, OneCall, Sits
  <2>6. Authorized(Version)
    BY <1>1, <2>5, PassedForThisPlan DEF Orderly
  <2>7. Fine(Version)
    BY <1>2, <2>4, <2>6
  <2> QED
    BY <1>5, <1>6, <1>8, <2>1, <2>2, <2>7
<1>10. ASSUME NEW c \in Calls, NEW p, Claim(c, p) PROVE Paid'
  <2> DEFINE x == [call[c] EXCEPT !.pc = "port", !.todo = @ \ {p}, !.choice = p]
  <2>1. call' = [call EXCEPT ![c] = x] /\ UNCHANGED raised /\ call[c].pc \in Engaged
    BY <1>10 DEF Claim, Raising, Engaged
  <2>2. x.version = call[c].version
    BY <1>1 DEF CallStates
  <2> HIDE DEF x
  <2> QED
    BY <1>4, <1>5, <1>6, <1>8, <2>1, <2>2
<1>11. ASSUME NEW c \in Calls, NEW p, Replay(c, p) PROVE Paid'
  <2> DEFINE x == [call[c] EXCEPT !.todo = @ \ {p}]
             y == [call[c] EXCEPT !.failed = TRUE]
  <2>1. /\ call' = [call EXCEPT ![c] = x] \/ call' = [call EXCEPT ![c] = y]
        /\ UNCHANGED raised /\ call[c].pc \in Engaged
    BY <1>11 DEF Replay, Raising, Engaged
  <2>2. x.version = call[c].version /\ y.version = call[c].version
    BY <1>1 DEF CallStates
  <2> HIDE DEF x, y
  <2> QED
    BY <1>4, <1>5, <1>6, <1>8, <2>1, <2>2
<1>12. ASSUME NEW c \in Calls, PortRefused(c) PROVE Paid'
  <2> DEFINE y == [call[c] EXCEPT !.pc = "raise", !.failed = TRUE]
  <2>1. call' = [call EXCEPT ![c] = y] /\ UNCHANGED raised /\ call[c].pc \in Engaged
    BY <1>12 DEF PortRefused, Engaged
  <2>2. y.version = call[c].version
    BY <1>1 DEF CallStates
  <2> HIDE DEF y
  <2> QED
    BY <1>4, <1>5, <1>6, <1>8, <2>1, <2>2
<1>13. ASSUME NEW c \in Calls, call[c].pc = "port",
              raised' = [raised EXCEPT ![DocOf(call[c])] = @ + 1]
       PROVE  \A d \in Docs : raised'[d] > 0 => Fine(d[2])
  <2>1. PICK e : e = DocOf(call[c])
    OBVIOUS
  <2>2. e[2] = call[c].version /\ Fine(call[c].version)
    BY <1>4, <1>13, <2>1 DEF DocOf, Engaged
  <2>3. \A d \in Docs : d # e => raised'[d] = raised[d]
    BY <1>1, <1>13, <2>1
  <2> QED
    BY <1>3, <2>2, <2>3
<1>14. ASSUME NEW c \in Calls, PortDone(c) PROVE Paid'
  <2> DEFINE x == [call[c] EXCEPT !.pc = "raise"]
  <2>1. /\ call[c].pc = "port" /\ call' = [call EXCEPT ![c] = x]
        /\ raised' = [raised EXCEPT ![DocOf(call[c])] = @ + 1]
    BY <1>14 DEF PortDone, Goto, Doc, DocOf
  <2>2. x.version = call[c].version /\ call[c].pc \in Engaged
    BY <1>1, <2>1 DEF CallStates, Engaged
  <2> HIDE DEF x
  <2> QED
    BY <1>4, <1>5, <1>8, <1>13, <2>1, <2>2
<1>15. ASSUME NEW c \in Calls, CrashAfter(c) PROVE Paid'
  <2>1. /\ call[c].pc = "port" /\ call' = [call EXCEPT ![c] = NoCall]
        /\ raised' = [raised EXCEPT ![DocOf(call[c])] = @ + 1]
    BY <1>15 DEF CrashAfter, Crash, Leave
  <2>2. NoCall.pc \notin Engaged
    BY DEF NoCall, Engaged
  <2> QED
    BY <1>5, <1>8, <1>13, <2>1, <2>2
<1> QED
  BY <1>1, <1>7, <1>9, <1>10, <1>11, <1>12, <1>14, <1>15, QuietSteps

\* Calls that start while another runs are counted, and never forgotten.
LEMMA ClicksGrow ==
    ASSUME [Next]_vars
    PROVE  clicks' \in {clicks, clicks + 1}
<1>1. ASSUME NEW c \in Calls, Advance(c) \/ Retry(c) PROVE clicks' \in {clicks, clicks + 1}
  BY <1>1 DEF Advance, Retry, Enter
<1>2. ASSUME NEW c \in Calls, Step(c) \/ Crash(c) PROVE UNCHANGED clicks
  BY <1>2 DEF Step, Crash, Observe, Propose, NoCandidate, Publish, Critique, Authorize,
     Reserve, Gather, Unresolved, PortDone, PortRefused, Record, RecordClash, Watch,
     Close, Clash, Claim, Replay, Yield
<1>3. ASSUME Person \/ Disrupt \/ UNCHANGED vars PROVE UNCHANGED clicks
  BY <1>3 DEF Person, Approve, Reject, TryAnother, SetAutonomy, Upload, ArmFault,
     Disrupt, vars
<1> QED
  BY <1>1, <1>2, <1>3 DEF Next

\* As long as calls come one at a time and no delay was reported, a document of a
\* plan outside the authority exists only after a person approved that plan,
\* whatever else people change between two steps, and whatever fails, crashes and
\* is run again.
THEOREM MoneyIsAuthorised ==
    Spec => []MoneyNeedsAuthority
<1> DEFINE Alone == clicks = 0 /\ disrupted = FALSE
           Inv == Keyed /\ clicks \in Nat /\ disrupted \in BOOLEAN /\ (Alone => Orderly /\ Paid)
<1>1. Init => Inv
  <2> SUFFICES ASSUME Init PROVE Inv
    OBVIOUS
  <2>1. row = << >> /\ approval = << >> /\ DOMAIN row = {} /\ DOMAIN approval = {}
    BY DEF Init
  <2>2. \A c \in Calls : ~Active(c) /\ call[c].pc \notin Engaged
    BY DEF Init, NoCall, Active, Engaged
  <2>3. Done = {} /\ Failed = {} /\ ~Passed
    BY <2>1 DEF Done, Failed, Passed
  <2>4. Orderly
    BY <2>1, <2>2, <2>3 DEF Orderly, OneCall, Ordered, Unique, Standing, Stale
  <2>5. Paid
    BY <2>2 DEF Init, Paid
  <2>6. clicks \in Nat /\ disrupted \in BOOLEAN
    BY DEF Init
  <2> QED
    BY <2>4, <2>5, <2>6, KeyedInitially
<1>2. Inv /\ [Next]_vars => Inv'
  <2> SUFFICES ASSUME Inv, [Next]_vars PROVE Inv'
    OBVIOUS
  <2>1. Keyed' /\ Base /\ Base'
    BY KeyedNext DEF Keyed
  <2>2. clicks' \in {clicks, clicks + 1}
    BY ClicksGrow
  <2>3. disrupted' \in {disrupted, TRUE}
    <3>1. ASSUME NEW c \in Calls, Advance(c) \/ Retry(c) \/ Step(c) \/ Crash(c)
          PROVE  UNCHANGED disrupted
      BY <3>1 DEF Advance, Retry, Step, Crash, Observe, Propose, NoCandidate, Publish,
         Critique, Authorize, Reserve, Gather, Unresolved, PortDone, PortRefused, Record,
         RecordClash, Watch, Close, Clash, Claim, Replay, Yield, worldVars
    <3>2. ASSUME Person \/ UNCHANGED vars PROVE UNCHANGED disrupted
      BY <3>2 DEF Person, Approve, Reject, TryAnother, SetAutonomy, Upload, ArmFault,
         vars, worldVars
    <3>3. ASSUME Disrupt PROVE disrupted' = TRUE
      BY <3>3 DEF Disrupt
    <3> QED
      BY <3>1, <3>2, <3>3 DEF Next
  <2>4. Alone' => Alone /\ clicks = 0 /\ clicks' = 0 /\ ~disrupted'
    <3>1. clicks' = 0 => clicks = 0
      BY <2>2
    <3>2. disrupted' = FALSE => disrupted = FALSE
      BY <2>3
    <3> QED
      BY <3>1, <3>2
  <2>5. Alone' => Orderly' /\ Paid'
    <3> SUFFICES ASSUME Alone' PROVE Orderly' /\ Paid'
      OBVIOUS
    <3>1. Orderly /\ Paid /\ clicks = 0 /\ clicks' = 0 /\ ~disrupted'
      BY <2>4
    <3> QED
      BY <2>1, <3>1, OrderlyNext, PaidNext
  <2>6. clicks' \in Nat
    BY <2>2
  <2>7. disrupted' \in BOOLEAN
    BY <2>3
  <2> QED
    BY <2>1, <2>5, <2>6, <2>7
<1>3. Inv => MoneyNeedsAuthority
  BY DEF MoneyNeedsAuthority, OneAtATime, Paid, Authorized
<1> HIDE DEF Inv
<1> QED
  BY <1>1, <1>2, <1>3, PTL DEF Spec

-----------------------------------------------------------------------------
(***************************************************************************)
(* A mission whose calls come one at a time, whatever delay is reported.   *)
(* Such a mission may carry on past a step that failed, or be woken after  *)
(* its last row but one, only because a person answers a request; and it   *)
(* has a request more than it should only because the delay rewound it     *)
(* past the one it was waiting for.  A request that nobody answered and a  *)
(* row that failed are debts.  The delay, which comes once, pays for one,  *)
(* and another stands only while the mission is stopped for it.  So where  *)
(* a step of documents has failed and the rest was done nevertheless, no   *)
(* answer is left to wake the mission and close it.                        *)
(***************************************************************************)
Top == Gate + 5
Place(k) == CHOOSE i \in DOMAIN Arc : Arc[i] = k
Prefix(m) == {Arc[j] : j \in 1 .. m}

Idle == \A c \in Calls : ~Active(c)
Asked == {a \in DOMAIN approval : Pending(a)}
Debts == Cardinality(Asked) + Cardinality(Failed)
Credit == IF disrupted THEN 1 ELSE 0
Stopped == Idle /\ status \in {"failed", "awaiting_approval"}
Solvent ==
    /\ Debts <= Credit + 1
    /\ ~Stopped => Debts <= Credit
    /\ status = "awaiting_approval" => Asked # {}

\* A row never stands before the place of its step, nor does a call's number;
\* and a call whose step stands in its place has none behind it.
Placed ==
    /\ Unique
    /\ \A i \in DOMAIN row : Place(row[i].key) <= i /\ i <= Top
    /\ "reserve" \in Done => Reserved
Begun(k, s) ==
    /\ k \notin Done /\ Place(k) <= s /\ s <= Top
    /\ s = Place(k) => \A d \in Done : Place(d) < s
Lone ==
    /\ \A c, d \in Calls : Active(c) /\ Active(d) => c = d
    /\ \A c \in Calls : Active(c) => Begun(call[c].key, call[c].seq)
    /\ \A c \in Calls : call[c].pc \in Engaged => call[c].version = Version

\* All but the last step are done, each in its place.  Then the mission waits, and
\* may owe what it can pay; or it was woken by its last answer and owes nothing.
Lined == \A i \in 1 .. Top - 1 : i \in DOMAIN row /\ row[i].key = Arc[i]
Resting == status = "waiting" /\ Idle /\ Top \notin DOMAIN row /\ Debts <= Credit
Woken == Asked = {} /\ disrupted /\ Failed \subseteq {Gate, Top}
Ending ==
    /\ Lined => Reserved /\ (Resting \/ Woken)
    /\ Top \in DOMAIN row \/ (\E c \in Calls : Active(c) /\ call[c].seq = Top) => Lined

\* Documents recorded behind a strategy in its place are those of its plan.
Fresh ==
    Gate - 2 \in DOMAIN row /\ row[Gate - 2].key = "strategy" =>
        \A i \in DOMAIN row : row[i].key \in DocKinds /\ row[i].status # "failed"
            => action[row[i].key][Version] # {}
Finished ==
    status = "completed" =>
        /\ Idle /\ Version >= 1
        /\ \A k \in DocKinds : "verified" \in action[k][Version]
Honest == Solvent /\ Placed /\ Lone /\ Ending /\ Fresh /\ Finished

\* Every step has one place.
LEMMA PlaceIs ==
    /\ Top \in Nat /\ Top = Gate + 5 /\ Gate \in Nat /\ Gate >= 3 /\ DOMAIN Arc = 1 .. Top
    /\ \A i \in 1 .. Top : Arc[i] \in Range(Arc) /\ Place(Arc[i]) = i
    /\ \A k \in Range(Arc) : Place(k) \in 1 .. Top /\ Arc[Place(k)] = k
    /\ Arc[Gate - 2] = "strategy" /\ Arc[Gate] = "authorize" /\ Arc[Gate + 1] = "reserve"
    /\ Arc[Gate + 2] = "procure" /\ Arc[Gate + 3] = "workorder"
    /\ Arc[Gate + 4] = "watch" /\ Arc[Gate + 5] = "close"
<1>1. /\ Gate \in Nat /\ Gate >= 3 /\ DOMAIN Arc = 1 .. Top /\ Top \in Nat /\ Top = Gate + 5
  BY ArcSpelled DEF Top
<1>2. \A i \in DOMAIN Arc :
          i \in 1 .. Gate - 3 \/ i \in {Gate - 2, Gate - 1, Gate, Gate + 1, Gate + 2,
                                        Gate + 3, Gate + 4, Gate + 5}
  BY <1>1
<1>3. ASSUME NEW i \in DOMAIN Arc, NEW j \in DOMAIN Arc, Arc[i] = Arc[j]
      PROVE  i = j
  <2>1. \A x \in 1 .. Gate - 3 : Arc[x] \notin CommitKeys
    BY ArcSpelled
  <2>2. \A x \in {Gate - 2, Gate - 1, Gate, Gate + 1, Gate + 2, Gate + 3, Gate + 4, Gate + 5} :
            Arc[x] \in CommitKeys
    BY ArcSpelled DEF CommitKeys
  <2>3. CASE i \in 1 .. Gate - 3
    BY <1>2, <1>3, <2>1, <2>2, <2>3, ArcSpelled
  <2>4. CASE i \in {Gate - 2, Gate - 1, Gate, Gate + 1, Gate + 2, Gate + 3, Gate + 4, Gate + 5}
    <3>1. j \in {Gate - 2, Gate - 1, Gate, Gate + 1, Gate + 2, Gate + 3, Gate + 4, Gate + 5}
      BY <1>2, <1>3, <2>1, <2>2, <2>4
    <3> QED
      BY <1>1, <1>3, <2>4, <3>1, ArcSpelled
  <2> QED
    BY <1>2, <2>3, <2>4
<1>4. ASSUME NEW k \in Range(Arc) PROVE Place(k) \in DOMAIN Arc /\ Arc[Place(k)] = k
  <2>1. \E i \in DOMAIN Arc : Arc[i] = k
    BY DEF Range
  <2> QED
    BY <2>1 DEF Place
<1>5. ASSUME NEW i \in DOMAIN Arc PROVE Arc[i] \in Range(Arc) /\ Place(Arc[i]) = i
  <2>1. Arc[i] \in Range(Arc)
    BY DEF Range
  <2> QED
    BY <1>3, <1>4, <2>1
<1> QED
  BY <1>1, <1>4, <1>5, ArcSpelled

\* As many steps before a place as its number says.
LEMMA PrefixCounts ==
    ASSUME NEW m \in 0 .. Top
    PROVE  IsFiniteSet(Prefix(m)) /\ Cardinality(Prefix(m)) = m
<1>1. Top \in Nat /\ \A i \in 1 .. Top : Place(Arc[i]) = i
  BY PlaceIs
<1>2. m \in Nat /\ 1 .. m \subseteq 1 .. Top
  BY <1>1
<1>3. IsFiniteSet(1 .. m) /\ Cardinality(1 .. m) = m
  <2>1. /\ IsFiniteSet(1 .. m)
        /\ Cardinality(1 .. m) = IF 1 > m THEN 0 ELSE m - 1 + 1
    BY <1>2, FS_Interval
  <2> QED
    BY <1>2, <2>1
<1> DEFINE f == [i \in 1 .. m |-> Arc[i]]
<1>4. f \in Bijection(1 .. m, Prefix(m))
  <2>1. \A i, j \in 1 .. m : Arc[i] = Arc[j] => i = j
    BY <1>1, <1>2
  <2> QED
    BY <2>1 DEF Bijection, Injection, Surjection, IsInjective, Prefix
<1>5. ExistsBijection(1 .. m, Prefix(m))
  BY <1>4 DEF ExistsBijection
<1> QED
  BY <1>3, <1>5, FS_Bijection

\* The next step is the first that is not done.
LEMMA NextIsFirst ==
    ASSUME Done \subseteq Range(Arc), Done # Range(Arc)
    PROVE  /\ NextKey \in Range(Arc) \ Done
           /\ Prefix(Place(NextKey) - 1) \subseteq Done
<1> DEFINE S == {i \in DOMAIN Arc : Arc[i] \notin Done}
           IsNext(i) == Arc[i] \notin Done /\ \A j \in 1 .. i - 1 : Arc[j] \in Done
           k == CHOOSE i \in DOMAIN Arc : IsNext(i)
<1>1. DOMAIN Arc = 1 .. Top /\ Top \in Nat /\ \A i \in 1 .. Top : Place(Arc[i]) = i
  BY PlaceIs
<1>2. S \in SUBSET Nat /\ S # {}
  BY <1>1 DEF Range
<1>3. PICK i \in S : \A j \in S : i <= j
  BY <1>2, LeastNumber
<1>4. i \in DOMAIN Arc /\ IsNext(i)
  BY <1>1, <1>3
<1>5. k \in DOMAIN Arc /\ IsNext(k)
  BY <1>4
<1>6. NextKey = Arc[k]
  BY DEF NextKey
<1> HIDE DEF k
<1>7. Place(NextKey) = k
  BY <1>1, <1>5, <1>6
<1> QED
  BY <1>5, <1>6, <1>7 DEF Range, Prefix

\* Requests and failures are finitely many, and debts are paid one by one.
LEMMA DebtsCounted ==
    ASSUME Base
    PROVE  /\ IsFiniteSet(Asked) /\ IsFiniteSet(Failed)
           /\ Cardinality(Asked) \in Nat /\ Cardinality(Failed) \in Nat /\ Debts \in Nat
           /\ Credit \in {0, 1} /\ (Credit = 1 <=> disrupted)
           /\ Asked # {} => Cardinality(Asked) >= 1
           /\ Failed # {} => Cardinality(Failed) >= 1
<1>1. IsFiniteSet(DOMAIN row)
  BY DEF Base, Rows
<1>2. approval \in Seq([version : 1 .. Version, decision : Decisions])
  BY BasePlanning DEF Planning
<1>3. DOMAIN approval = 1 .. Len(approval) /\ Len(approval) \in Nat
  BY <1>2, LenProperties, Zenon
<1>4. IsFiniteSet(DOMAIN approval)
  BY <1>3, FS_Interval
<1>5. IsFiniteSet(Asked) /\ IsFiniteSet(Failed)
  <2>1. Asked \in SUBSET DOMAIN approval /\ Failed \in SUBSET DOMAIN row
    BY DEF Asked, Failed
  <2> QED
    BY <1>1, <1>4, <2>1, FS_Subset
<1>6. Cardinality(Asked) \in Nat /\ Cardinality(Failed) \in Nat
  BY <1>5, FS_CardinalityType
<1>7. (Cardinality(Asked) = 0 => Asked = {}) /\ (Cardinality(Failed) = 0 => Failed = {})
  BY <1>5, FS_EmptySet
<1> QED
  BY <1>5, <1>6, <1>7 DEF Debts, Credit

LEMMA OneMore ==
    ASSUME NEW S, IsFiniteSet(S), NEW x
    PROVE  Cardinality(S \cup {x}) \in Nat /\ Cardinality(S \cup {x}) <= Cardinality(S) + 1
<1>1. Cardinality(S) \in Nat
  BY FS_CardinalityType
<1>2. Cardinality(S \cup {x}) = IF x \in S THEN Cardinality(S) ELSE Cardinality(S) + 1
  BY FS_AddElement
<1> QED
  BY <1>1, <1>2

\* The same rows with what they say, the same requests.
LEMMA DebtsSame ==
    ASSUME UNCHANGED <<row, approval>>
    PROVE  Asked' = Asked /\ Failed' = Failed /\ Debts' = Debts
           /\ Done' = Done /\ Unique' = Unique /\ Lined' = Lined
  BY DEF Asked, Failed, Debts, Done, Pending, Unique, Lined

\* Rows that stand at all numbers but the last are each in their place.
LEMMA NoRoomToStray ==
    ASSUME Base, Placed, DOMAIN row = 1 .. Top - 1
    PROVE  Lined
<1>1. /\ Top \in Nat /\ \A k \in Range(Arc) : Place(k) \in 1 .. Top /\ Arc[Place(k)] = k
      /\ \A i \in 1 .. Top : Place(Arc[i]) = i
  BY PlaceIs
<1>2. \A i \in DOMAIN row : row[i].key \in Range(Arc) /\ Place(row[i].key) <= i
  BY DEF Base, Rows, GoodRow, Placed
<1> DEFINE S == {i \in 1 .. Top - 1 : row[i].key # Arc[i]}
<1>3. ASSUME S # {} PROVE FALSE
  <2>1. S \in SUBSET Nat
    BY <1>1
  <2>2. PICK i \in S : \A j \in S : i <= j
    BY <1>3, <2>1, LeastNumber
  <2>3. PICK p : p = Place(row[i].key)
    OBVIOUS
  <2>4. i \in DOMAIN row /\ p \in 1 .. Top /\ p <= i /\ Arc[p] = row[i].key /\ i \in Nat
    BY <1>1, <1>2, <2>2, <2>3
  <2>5. p # i
    BY <2>2, <2>4
  <2>6. p \in DOMAIN row /\ p \notin S
    BY <1>1, <2>2, <2>4, <2>5
  <2>7. row[p].key = row[i].key
    BY <2>4, <2>6
  <2> QED
    BY <2>4, <2>5, <2>6, <2>7 DEF Placed, Unique
<1> QED
  BY <1>3 DEF Lined

\* A call that starts when none is in flight.
LEMMA StartsAlone ==
    ASSUME Base, NEW c \in Calls, NEW k, NEW s, \A d \in Calls : ~Active(d),
           call' = [call EXCEPT ![c] = [NoCall EXCEPT !.pc = "run", !.key = k, !.seq = s]]
    PROVE  \A d \in Calls : call'[d].pc # "idle" =>
               d = c /\ call'[d].key = k /\ call'[d].seq = s /\ call'[d].pc = "run"
<1> DEFINE x == [NoCall EXCEPT !.pc = "run", !.key = k, !.seq = s]
<1>1. x.key = k /\ x.seq = s /\ x.pc = "run"
  BY DEF NoCall
<1>2. call' = [call EXCEPT ![c] = x] /\ call \in [Calls -> CallStates]
  BY DEF Base, GoodCalls
<1> HIDE DEF x
<1>3. \A d \in Calls : call'[d] = IF d = c THEN x ELSE call[d]
  BY <1>2
<1> QED
  BY <1>1, <1>3 DEF Active

\* A call that advances.
LEMMA AdvanceIsHonest ==
    ASSUME Base, Honest, NEW c \in Calls, Advance(c), clicks = 0, clicks' = 0
    PROVE  Honest'
<1>0. PICK k, s : k = NextKey /\ s = Steps + 1
  OBVIOUS
<1>1. /\ \A d \in Calls : ~Active(d)
      /\ call' = [call EXCEPT ![c] = [NoCall EXCEPT !.pc = "run", !.key = k, !.seq = s]]
  <2>1. clicks' # clicks + 1
    OBVIOUS
  <2> QED
    BY <1>0, <2>1 DEF Advance, Enter, Active, Steps
<1>2. /\ status \in Open /\ Done # Range(Arc)
      /\ UNCHANGED <<row, plan, approval, action, status, disrupted>>
  BY DEF Advance, missionVars, worldVars
<1>3. /\ Asked' = Asked /\ Failed' = Failed /\ Debts' = Debts /\ Credit' = Credit
      /\ Done' = Done /\ Unique' = Unique /\ Lined' = Lined /\ Reserved' = Reserved
      /\ Version' = Version
  BY <1>2, DebtsSame DEF Credit, Reserved, Version
<1>4. \A d \in Calls : call'[d].pc # "idle" => d = c /\ call'[d].key = k /\ call'[d].seq = s
                                               /\ call'[d].pc = "run"
  BY <1>1, StartsAlone
<1>5. /\ Done \subseteq Range(Arc) /\ IsFiniteSet(Done) /\ Cardinality(Done) = Steps
      /\ Steps \in Nat /\ Unique
  BY DoneCounts DEF Honest, Placed
<1>6. k \in Range(Arc) \ Done /\ Prefix(Place(k) - 1) \subseteq Done
  BY <1>0, <1>2, <1>5, NextIsFirst
<1>7. /\ Top \in Nat /\ Top > 1 /\ \A j \in Range(Arc) : Place(j) \in 1 .. Top /\ Arc[Place(j)] = j
      /\ \A i \in 1 .. Top : Arc[i] \in Range(Arc) /\ Place(Arc[i]) = i
  BY PlaceIs
<1>8. PICK q \in 1 .. Top : q = Place(k) /\ Arc[q] = k
  BY <1>6, <1>7
<1>9. IsFiniteSet(Prefix(q - 1)) /\ Cardinality(Prefix(q - 1)) = q - 1
  <2>1. q - 1 \in 0 .. Top
    BY <1>7
  <2> QED
    BY <2>1, PrefixCounts
<1>10. q - 1 <= Steps /\ (q - 1 = Steps => Prefix(q - 1) = Done)
  <2>1. Prefix(q - 1) \in SUBSET Done
    BY <1>6, <1>8
  <2> QED
    BY <1>5, <1>9, <2>1, FS_Subset
<1>11. Steps < Top
  <2>1. IsFiniteSet(Prefix(Top)) /\ Cardinality(Prefix(Top)) = Top
    BY <1>7, PrefixCounts
  <2>2. Done \in SUBSET Prefix(Top) /\ Done # Prefix(Top)
    <3>1. \A j \in Range(Arc) : j \in Prefix(Top)
      BY <1>7 DEF Prefix
    <3> QED
      BY <1>5, <1>6, <3>1
  <2>3. Cardinality(Done) <= Top /\ Cardinality(Done) # Top
    BY <2>1, <2>2, FS_Subset
  <2> QED
    BY <1>5, <1>7, <2>3
<1>12. Begun(k, s)
  <2>1. s \in Nat /\ q <= s /\ s <= Top
    BY <1>0, <1>5, <1>7, <1>10, <1>11
  <2>2. ASSUME s = q, NEW d \in Done PROVE Place(d) < s
    <3>1. Done = Prefix(q - 1)
      BY <1>0, <1>5, <1>7, <1>10, <2>2
    <3>2. PICK j \in 1 .. q - 1 : d = Arc[j]
      BY <2>2, <3>1 DEF Prefix
    <3>3. j \in 1 .. Top /\ j < q
      BY <1>7, <3>2
    <3> QED
      BY <1>7, <2>2, <3>2, <3>3
  <2> QED
    BY <1>6, <1>8, <2>1, <2>2 DEF Begun
<1>13. s = Top => Lined
  <2> SUFFICES ASSUME s = Top PROVE Lined
    OBVIOUS
  <2>1. Steps = Top - 1
    BY <1>0, <1>5, <1>7
  <2>2. DOMAIN row \subseteq 1 .. Top
    <3>1. \A i \in DOMAIN row : i \in Nat /\ row[i].key \in Range(Arc)
      BY DEF Base, Rows, GoodRow
    <3> QED
      BY <1>7, <3>1 DEF Honest, Placed
  <2>3. Top \in DOMAIN row => Lined
    BY DEF Honest, Ending
  <2>4. ASSUME Top \notin DOMAIN row PROVE Lined
    <3>1. DOMAIN row \in SUBSET (1 .. Top - 1)
      BY <1>7, <2>2, <2>4
    <3>2. IsFiniteSet(1 .. Top - 1) /\ Cardinality(1 .. Top - 1) = Top - 1
      <4>1. /\ IsFiniteSet(1 .. Top - 1)
            /\ Cardinality(1 .. Top - 1) = IF 1 > Top - 1 THEN 0 ELSE (Top - 1) - 1 + 1
        BY <1>7, FS_Interval
      <4> QED
        BY <1>7, <4>1
    <3>3. DOMAIN row = 1 .. Top - 1
      BY <2>1, <3>1, <3>2, FS_Subset DEF Steps
    <3> QED
      BY <3>3, NoRoomToStray DEF Honest
  <2> QED
    BY <2>3, <2>4
<1>14. Lone'
  <2>1. \A j, n : Begun(j, n)' <=> Begun(j, n)
    BY <1>3 DEF Begun
  <2>2. \A d \in Calls : Active(d)' => Begun(call[d].key, call[d].seq)'
    BY <1>4, <1>12, <2>1 DEF Active
  <2> QED
    BY <1>4, <2>2 DEF Lone, Active, Engaged
<1>15. Solvent'
  <2>1. ~Stopped
    BY <1>2 DEF Stopped, Open
  <2> QED
    BY <1>2, <1>3, <2>1, DebtsCounted DEF Honest, Solvent
<1>16. Placed' /\ Fresh' /\ Finished'
  BY <1>2, <1>3 DEF Honest, Placed, Fresh, Finished, Open
<1>17. Ending'
  <2>1. Lined => Reserved /\ Woken
    BY <1>2 DEF Honest, Ending, Resting, Open
  <2>2. Woken' = Woken
    BY <1>2, <1>3 DEF Woken
  <2>3. Top \in DOMAIN row' \/ (\E d \in Calls : Active(d)' /\ call'[d].seq = Top) => Lined
    BY <1>2, <1>4, <1>13 DEF Honest, Ending, Active
  <2> QED
    BY <1>3, <2>1, <2>2, <2>3 DEF Ending
<1> QED
  BY <1>14, <1>15, <1>16, <1>17 DEF Honest

\* Fewer rows, each of which says what it said: no more has failed, and what stood
\* in its place stands there.
Kept ==
    /\ DOMAIN row' \subseteq DOMAIN row
    /\ \A i \in DOMAIN row' : row'[i] = row[i]
LEMMA KeptRows ==
    ASSUME Base, Honest, Kept, Version' = Version, UNCHANGED action
    PROVE  /\ Done' \subseteq Done /\ Failed' \subseteq Failed
           /\ Cardinality(Failed') \in Nat /\ Cardinality(Failed') <= Cardinality(Failed)
           /\ Placed' /\ Fresh' /\ (Lined' => Lined) /\ Reserved' = Reserved
           /\ \A k, s : Begun(k, s) => Begun(k, s)'
<1>1. Failed' \subseteq Failed /\ Done' \subseteq Done
  BY DEF Kept, Failed, Done
<1>2. Cardinality(Failed') \in Nat /\ Cardinality(Failed') <= Cardinality(Failed)
  <2>1. Failed' \in SUBSET Failed
    BY <1>1
  <2> QED
    BY <2>1, DebtsCounted, FS_Subset, FS_CardinalityType
<1>3. Reserved' = Reserved
  BY DEF Reserved
<1>4. Placed'
  BY <1>1, <1>3 DEF Honest, Placed, Unique, Kept
<1>5. Fresh'
  BY DEF Honest, Fresh, Kept
<1>6. Lined' => Lined
  BY DEF Kept, Lined
<1>7. \A k, s : Begun(k, s) => Begun(k, s)'
  BY <1>1 DEF Begun
<1> QED
  BY <1>1, <1>2, <1>3, <1>4, <1>5, <1>6, <1>7

\* A retry pays for the failure it takes away.
LEMMA RetryIsHonest ==
    ASSUME Base, Honest, NEW c \in Calls, Retry(c), clicks = 0, clicks' = 0
    PROVE  Honest'
<1>1. PICK last \in Failed :
         /\ row[last].key # "authorize"
         /\ DeleteSteps([j \in DOMAIN row |-> j >= last])
         /\ Enter(c, row[last].key, last)
         /\ status' \in {"executing", "planning"}
         /\ UNCHANGED <<plan, approval, action, disrupted>>
  BY DEF Retry
<1>2. PICK k : k = row[last].key
  OBVIOUS
<1>3. /\ \A d \in Calls : ~Active(d)
      /\ call' = [call EXCEPT ![c] = [NoCall EXCEPT !.pc = "run", !.key = k, !.seq = last]]
  <2>1. clicks' # clicks + 1
    OBVIOUS
  <2> QED
    BY <1>1, <1>2, <2>1 DEF Enter, Active
<1>4. \A d \in Calls : call'[d].pc # "idle" => d = c /\ call'[d].key = k /\ call'[d].seq = last
                                               /\ call'[d].pc = "run"
  BY <1>3, StartsAlone
<1>5. /\ last \in DOMAIN row /\ last \in Nat /\ k \in Range(Arc) /\ DOMAIN row \subseteq Nat
      /\ \A i \in DOMAIN row : row[i].key \in Range(Arc)
  BY <1>1, <1>2 DEF Failed, Base, Rows, GoodRow
<1>6. /\ DOMAIN row' = {j \in DOMAIN row : ~(j >= last)}
      /\ \A i \in DOMAIN row' : row'[i] = row[i]
  BY <1>1 DEF DeleteSteps
<1>7. Version' = Version /\ Asked' = Asked /\ Credit' = Credit
  BY <1>1 DEF Version, Asked, Pending, Credit
<1>8. Kept
  BY <1>6 DEF Kept
<1>9. /\ Done' \subseteq Done /\ Failed' \subseteq Failed /\ Cardinality(Failed') \in Nat
      /\ Placed' /\ Fresh' /\ (Lined' => Lined) /\ Reserved' = Reserved
  BY <1>1, <1>7, <1>8, KeptRows
<1>10. /\ Top \in Nat /\ Top > 1
       /\ \A j \in Range(Arc) : Place(j) \in 1 .. Top /\ Arc[Place(j)] = j
  BY PlaceIs
<1>11. Place(k) <= last /\ last <= Top
  BY <1>2, <1>5 DEF Honest, Placed
<1>12. \A i \in DOMAIN row' : i < last /\ i \in DOMAIN row /\ i \in Nat
  BY <1>5, <1>6
<1>13. Begun(k, last)'
  <2>1. k \notin Done'
    <3>1. \A i \in DOMAIN row' : row[i].key # k
      BY <1>2, <1>5, <1>12 DEF Honest, Placed, Unique
    <3> QED
      BY <1>6, <3>1 DEF Done
  <2>2. ASSUME NEW d \in Done' PROVE Place(d) < last
    <3>1. PICK i \in DOMAIN row' : d = row'[i].key
      BY DEF Done
    <3>2. d = row[i].key /\ i < last /\ i \in Nat
      BY <1>6, <1>12, <3>1
    <3>3. Place(d) <= i /\ d \in Range(Arc)
      BY <1>5, <1>12, <3>2 DEF Honest, Placed
    <3> QED
      BY <1>5, <1>10, <3>2, <3>3
  <2> QED
    BY <1>11, <2>1, <2>2 DEF Begun
<1>14. Lone'
  <2>1. \A d \in Calls : Active(d)' => Begun(call[d].key, call[d].seq)'
    BY <1>4, <1>13 DEF Active
  <2> QED
    BY <1>4, <2>1 DEF Lone, Active, Engaged
<1>15. Solvent'
  <2>1. /\ IsFiniteSet(Failed) /\ Cardinality(Failed \ {last}) = Cardinality(Failed) - 1
        /\ IsFiniteSet(Failed \ {last})
    BY <1>1, DebtsCounted, FS_RemoveElement
  <2>2. Failed' \in SUBSET (Failed \ {last})
    BY <1>9, <1>12 DEF Failed
  <2>3. Cardinality(Failed') <= Cardinality(Failed) - 1
    BY <2>1, <2>2, FS_Subset
  <2>4. Debts <= Credit + 1
    BY DebtsCounted DEF Honest, Solvent
  <2>5. Debts' <= Credit' /\ Debts' \in Nat /\ Credit' \in Nat
    BY <1>7, <1>9, <2>3, <2>4, DebtsCounted DEF Debts
  <2>6. status' # "awaiting_approval"
    BY <1>1
  <2>7. Debts' <= Credit' + 1
    <3>1. PICK n, m : n = Debts' /\ m = Credit'
      OBVIOUS
    <3>2. n <= m /\ n \in Nat /\ m \in Nat
      BY <2>5, <3>1
    <3>3. n <= m + 1
      BY <3>2
    <3> QED
      BY <3>1, <3>3
  <2> QED
    BY <2>5, <2>6, <2>7 DEF Solvent
<1>16. Finished'
  BY <1>1 DEF Finished
<1>17. Ending'
  <2>1. ASSUME Lined' PROVE last = Top
    <3>1. Top - 1 \in DOMAIN row'
      BY <1>10, <2>1 DEF Lined
    <3> QED
      BY <1>5, <1>10, <1>11, <1>12, <3>1
  <2>2. ASSUME last = Top PROVE Lined /\ Woken /\ Reserved
    BY <1>5, <2>2 DEF Honest, Ending, Resting
  <2>3. ASSUME last = Top PROVE Lined'
    <3>1. \A i \in 1 .. Top - 1 : i \in DOMAIN row /\ row[i].key = Arc[i] /\ ~ (i >= last)
      BY <1>10, <2>2, <2>3 DEF Lined
    <3> QED
      BY <1>6, <3>1 DEF Lined
  <2>4. Lined' => Reserved' /\ Woken'
    BY <1>1, <1>7, <1>9, <2>1, <2>2 DEF Woken
  <2>5. Top \notin DOMAIN row'
    BY <1>5, <1>10, <1>11, <1>12
  <2>6. (\E d \in Calls : Active(d)' /\ call'[d].seq = Top) => Lined'
    BY <1>4, <2>3 DEF Active
  <2> QED
    BY <2>4, <2>5, <2>6 DEF Ending
<1> QED
  BY <1>9, <1>14, <1>15, <1>16, <1>17 DEF Honest

\* A call that goes on, or stops, changes nothing that Honest speaks of.
LEMMA StillIsHonest ==
    ASSUME Base, Honest, Still
    PROVE  Honest'
<1>1. /\ UNCHANGED <<row, plan, approval, action, disrupted>>
      /\ UNCHANGED status \/ (status' = "waiting" /\ \E d \in Calls : Active(d))
      /\ \A d \in Calls : Active(d)' => Active(d) /\ call'[d].key = call[d].key
                                                  /\ call'[d].seq = call[d].seq
  BY DEF Still, Active
<1>2. /\ Asked' = Asked /\ Failed' = Failed /\ Debts' = Debts /\ Credit' = Credit
      /\ Done' = Done /\ Unique' = Unique /\ Lined' = Lined /\ Reserved' = Reserved
      /\ Version' = Version
  BY <1>1, DebtsSame DEF Credit, Reserved, Version
<1>3. Idle => UNCHANGED status /\ Idle'
  BY <1>1 DEF Idle
<1>4. Lone'
  <2>1. \A k, s : Begun(k, s)' <=> Begun(k, s)
    BY <1>2 DEF Begun
  <2>2. \A d \in Calls : Active(d)' => Begun(call[d].key, call[d].seq)'
    BY <1>1, <2>1 DEF Honest, Lone
  <2>3. \A d \in Calls : call'[d].pc \in Engaged => call'[d].version = Version
    <3>1. "idle" \notin Engaged
      BY DEF Engaged
    <3> QED
      BY <3>1 DEF Still, Honest, Lone
  <2> QED
    BY <1>1, <1>2, <2>2, <2>3 DEF Honest, Lone
<1>5. Solvent'
  <2>1. ASSUME ~Stopped' PROVE Debts <= Credit
    <3>1. CASE Idle
      BY <1>3, <2>1, <3>1 DEF Stopped, Honest, Solvent
    <3>2. CASE ~Idle
      BY <3>2 DEF Stopped, Honest, Solvent
    <3> QED
      BY <3>1, <3>2
  <2>2. Debts <= Credit + 1
    BY DEF Honest, Solvent
  <2>3. status' = "awaiting_approval" => Asked # {}
    BY <1>1 DEF Honest, Solvent
  <2> QED
    BY <1>2, <2>1, <2>2, <2>3 DEF Solvent
<1>6. Placed'
  BY <1>1, <1>2 DEF Honest, Placed
<1>7. Ending'
  <2>1. Resting => Resting'
    BY <1>1, <1>2, <1>3 DEF Resting
  <2>2. Woken' = Woken
    BY <1>1, <1>2 DEF Woken
  <2> QED
    BY <1>1, <1>2, <2>1, <2>2 DEF Honest, Ending
<1>8. Fresh'
  BY <1>1, <1>2 DEF Honest, Fresh
<1>9. Finished'
  BY <1>1, <1>2, <1>3 DEF Honest, Finished
<1> QED
  BY <1>4, <1>5, <1>6, <1>7, <1>8, <1>9 DEF Honest

\* A step that is recorded: only the one that watches can be the last to fall in
\* line, and only the one that closes can stand behind it.
LEMMA WriteIsHonest ==
    ASSUME Base, Honest, NEW c \in Calls, NEW st, Written(c, st)
    PROVE  Honest'
<1>1. PICK k, s, x : k = call[c].key /\ s = call[c].seq /\ x = [key |-> k, status |-> st]
  OBVIOUS
<1>2. x.key = k /\ x.status = st
  BY <1>1
<1>3. /\ s \notin DOMAIN row
      /\ DOMAIN row' = DOMAIN row \cup {s} /\ row'[s] = x
      /\ \A i \in DOMAIN row : row'[i] = row[i]
  BY <1>1 DEF Written, WriteStep
<1>4. /\ Active(c) /\ ~Idle /\ Begun(k, s) /\ k \notin Done
      /\ status # "completed"
      /\ call[c].pc \in Engaged => call[c].version = Version
  BY <1>1 DEF Written, Idle, Honest, Lone, Begun, Finished
<1>5. Idle'
  <2>1. \A d \in Calls : call'[d] = IF d = c THEN NoCall ELSE call[d]
    BY DEF Written, Leave, Base, GoodCalls
  <2>2. \A d \in Calls : d # c => ~Active(d)
    BY DEF Written, Honest, Lone
  <2>3. NoCall.pc = "idle"
    BY DEF NoCall
  <2> QED
    BY <2>1, <2>2, <2>3 DEF Idle, Active
<1>6. /\ k \in Range(Arc) /\ s \in Nat /\ (k \in Later => Version >= 1) /\ Version \in Nat
      /\ \A i \in DOMAIN row : i \in Nat /\ row[i].key \in Range(Arc)
      /\ \A i \in DOMAIN row : row[i].key \in CommitKeys => Version >= 1
  BY <1>1, BasePlanning DEF Written, Active, Base, GoodCalls, GoodCall, CallStates, Rows, GoodRow
<1>7. /\ Top \in Nat /\ Top = Gate + 5 /\ Gate \in Nat /\ Gate >= 3
      /\ \A i \in 1 .. Top : Arc[i] \in Range(Arc) /\ Place(Arc[i]) = i
      /\ \A j \in Range(Arc) : Place(j) \in 1 .. Top /\ Arc[Place(j)] = j
      /\ Arc[Gate - 2] = "strategy" /\ Arc[Gate] = "authorize" /\ Arc[Gate + 1] = "reserve"
      /\ Arc[Gate + 2] = "procure" /\ Arc[Gate + 3] = "workorder"
      /\ Arc[Gate + 4] = "watch" /\ Arc[Gate + 5] = "close"
  BY PlaceIs
<1>8. Place(k) <= s /\ s <= Top /\ Place(k) >= 1
  BY <1>4, <1>6, <1>7 DEF Begun
<1>9. Done' = Done \cup {k}
  <2>1. \A y : y \in Done' <=> y \in Done \/ y = k
    BY <1>2, <1>3 DEF Done
  <2> QED
    BY <2>1
<1>10. Debts <= Credit
  BY <1>4 DEF Honest, Solvent, Stopped
<1>11. Lone'
  BY <1>5 DEF Lone, Idle, Active, Engaged
<1>12. st # "waiting_approval" => Asked' = Asked
  BY DEF Written, Asked, Pending
<1>13. Failed' = IF st = "failed" THEN Failed \cup {s} ELSE Failed
  BY <1>2, <1>3 DEF Failed
<1>14. Credit' = Credit
  BY DEF Written, Credit
<1>15. Solvent'
  <2>1. /\ IsFiniteSet(Asked) /\ IsFiniteSet(Failed) /\ Credit \in Nat
        /\ Cardinality(Asked) \in Nat /\ Cardinality(Failed) \in Nat
        /\ Debts = Cardinality(Asked) + Cardinality(Failed)
    BY DebtsCounted DEF Debts
  <2>2. CASE st = "waiting_approval"
    <3> DEFINE r == [version |-> Version, decision |-> "pending"]
    <3>1. status' = "awaiting_approval" /\ approval' = Append(approval, r)
      BY <2>2 DEF Written
    <3>2. approval \in Seq([version : 1 .. Version, decision : Decisions])
      BY BasePlanning DEF Planning
    <3>3. r.decision = "pending"
      OBVIOUS
    <3> HIDE DEF r
    <3>4. /\ DOMAIN approval = 1 .. Len(approval) /\ Len(approval) \in Nat
          /\ DOMAIN approval' = 1 .. Len(approval) + 1
          /\ \A a \in 1 .. Len(approval) : approval'[a] = approval[a]
          /\ approval'[Len(approval) + 1] = r
      BY <3>1, <3>2
    <3>5. Asked' = Asked \cup {Len(approval) + 1}
      BY <3>3, <3>4 DEF Asked, Pending
    <3>6. Cardinality(Asked') \in Nat /\ Cardinality(Asked') <= Cardinality(Asked) + 1
      BY <2>1, <3>5, OneMore
    <3>7. Debts' <= Credit + 1
      BY <1>10, <1>13, <2>1, <2>2, <3>6 DEF Debts
    <3> QED
      BY <1>5, <1>14, <3>1, <3>5, <3>7 DEF Solvent, Stopped
  <2>3. CASE st = "failed"
    <3>1. status' = "failed"
      BY <2>3 DEF Written
    <3>2. Cardinality(Failed') \in Nat /\ Cardinality(Failed') <= Cardinality(Failed) + 1
      BY <1>13, <2>1, <2>3, OneMore
    <3>3. Debts' <= Credit + 1
      BY <1>10, <1>12, <2>1, <2>3, <3>2 DEF Debts
    <3> QED
      BY <1>5, <1>14, <3>1, <3>3 DEF Solvent, Stopped
  <2>4. CASE st = "succeeded"
    <3>1. Debts' = Debts
      BY <1>12, <1>13, <2>4 DEF Debts
    <3>2. status' = "awaiting_approval" => Asked' # {}
      BY <1>12, <2>4 DEF Written, Honest, Solvent
    <3>3. Debts <= Credit + 1
      BY <1>10, <2>1
    <3> QED
      BY <1>10, <1>14, <3>1, <3>2, <3>3 DEF Solvent
  <2> QED
    BY <2>2, <2>3, <2>4 DEF Written
<1>16. Placed'
  <2>1. Unique'
    <3>1. \A i \in DOMAIN row : row[i].key # k
      BY <1>4 DEF Done
    <3> QED
      BY <1>2, <1>3, <3>1 DEF Honest, Placed, Unique
  <2>2. "reserve" \in Done' => Reserved'
    BY <1>1, <1>9 DEF Honest, Placed, Written
  <2>3. \A i \in DOMAIN row' : Place(row'[i].key) <= i /\ i <= Top
    BY <1>2, <1>3, <1>8 DEF Honest, Placed
  <2> QED
    BY <2>1, <2>2, <2>3 DEF Placed
<1>17. Fresh'
  <2>1. CASE k = "strategy"
    <3>1. ASSUME s = Gate - 2, NEW i \in DOMAIN row, row[i].key \in DocKinds PROVE FALSE
      <4>1. row[i].key \in Done /\ Place(k) = s
        BY <1>7, <2>1, <3>1 DEF Done
      <4>2. Place(row[i].key) < s
        BY <1>4, <4>1 DEF Begun
      <4>3. Place(row[i].key) \in {Gate + 2, Gate + 3}
        BY <1>7, <3>1 DEF DocKinds
      <4> QED
        BY <1>7, <3>1, <4>2, <4>3
    <3>2. ASSUME s # Gate - 2, Gate - 2 \in DOMAIN row', row'[Gate - 2].key = "strategy"
          PROVE  FALSE
      <4>1. Gate - 2 \in DOMAIN row /\ row[Gate - 2].key = "strategy"
        BY <1>3, <3>2
      <4> QED
        BY <1>4, <2>1, <4>1 DEF Done
    <3>3. k \notin DocKinds
      BY <2>1 DEF DocKinds
    <3> QED
      BY <1>2, <1>3, <3>1, <3>2, <3>3 DEF Fresh
  <2>2. CASE k # "strategy"
    <3>1. Version' = Version
      BY <1>1, <2>2 DEF Written, Version
    <3> SUFFICES ASSUME Gate - 2 \in DOMAIN row', row'[Gate - 2].key = "strategy",
                        NEW i \in DOMAIN row', row'[i].key \in DocKinds,
                        row'[i].status # "failed"
                 PROVE  action'[row'[i].key][Version] # {}
      BY <3>1 DEF Fresh
    <3>2. Gate - 2 \in DOMAIN row /\ row[Gate - 2].key = "strategy"
      BY <1>2, <1>3, <2>2
    <3>3. CASE i = s
      BY <1>1, <1>2, <1>3, <1>4, <3>3 DEF Written
    <3>4. CASE i # s
      <4>1. i \in DOMAIN row /\ row'[i] = row[i] /\ row[i].key \in CommitKeys
        BY <1>3, <3>4 DEF DocKinds, CommitKeys
      <4>2. action[row[i].key][Version] # {}
        BY <3>2, <4>1 DEF Honest, Fresh
      <4>3. Version \in 1 .. MaxPlans
        BY <1>6, <4>1, BasePlanning DEF Planning
      <4> QED
        BY <4>1, <4>2, <4>3 DEF Written
    <3> QED
      BY <3>3, <3>4
  <2> QED
    BY <2>1, <2>2
\* Behind the line there is room for the step that closes.
<1>18. ASSUME Lined PROVE s = Top /\ k = "close" /\ Reserved /\ Woken
  <2>1. s = Top
    BY <1>3, <1>6, <1>7, <1>8, <1>18 DEF Lined
  <2>2. Place(k) = Top
    <3>1. ASSUME Place(k) \in 1 .. Top - 1 PROVE FALSE
      <4>1. Place(k) \in DOMAIN row /\ row[Place(k)].key = k
        BY <1>6, <1>7, <1>18, <3>1 DEF Lined
      <4> QED
        BY <1>4, <4>1 DEF Done
    <3> QED
      BY <1>6, <1>7, <1>8, <3>1
  <2>3. Reserved /\ Woken
    BY <1>4, <1>18 DEF Honest, Ending, Resting
  <2> QED
    BY <1>6, <1>7, <2>1, <2>2, <2>3
<1>19. Lined => Lined'
  <2>1. ASSUME Lined PROVE Lined'
    BY <1>3, <2>1 DEF Lined
  <2> QED
    BY <2>1
<1>20. s = Top => Lined
  BY <1>1, <1>4 DEF Honest, Ending
<1>21. ASSUME ~Lined, Lined' PROVE s = Top - 1 /\ k = "watch" /\ Top \notin DOMAIN row
  <2>1. s \in 1 .. Top - 1
    <3>1. ASSUME s \notin 1 .. Top - 1 PROVE Lined
      BY <1>3, <1>21, <3>1 DEF Lined
    <3> QED
      BY <1>21, <3>1
  <2>2. k = Arc[s] /\ Place(k) = s
    BY <1>2, <1>3, <1>7, <1>21, <2>1 DEF Lined
  <2>3. ASSUME s < Top - 1 PROVE FALSE
    <3>1. Top - 1 \in 1 .. Top - 1 /\ Top - 1 # s /\ Top - 1 \in 1 .. Top
      BY <1>7, <2>1, <2>3
    <3>2. Top - 1 \in DOMAIN row /\ row[Top - 1].key = Arc[Top - 1]
      BY <1>3, <1>21, <3>1 DEF Lined
    <3>3. Arc[Top - 1] \in Done /\ Place(Arc[Top - 1]) = Top - 1
      BY <1>7, <3>1, <3>2 DEF Done
    <3>4. Place(Arc[Top - 1]) < s
      BY <1>4, <2>2, <3>3 DEF Begun
    <3> QED
      BY <1>7, <2>1, <2>3, <3>3, <3>4
  <2>4. s = Top - 1
    BY <1>7, <2>1, <2>3
  <2>5. Top \notin DOMAIN row
    BY <1>21 DEF Honest, Ending
  <2> QED
    BY <1>7, <2>2, <2>4, <2>5
<1>22. Ending'
  <2>1. CASE Lined
    <3>1. Asked' = Asked
      BY <1>1, <1>12, <1>18, <2>1 DEF Written
    <3>2. Woken'
      BY <1>13, <1>18, <2>1, <3>1 DEF Woken, Written
    <3>3. Reserved'
      BY <1>18, <2>1 DEF Written
    <3> QED
      BY <1>19, <2>1, <3>2, <3>3 DEF Ending
  <2>2. CASE ~Lined /\ Lined'
    <3>1. s = Top - 1 /\ k = "watch" /\ Top \notin DOMAIN row
      BY <1>21, <2>2
    <3>2. Top \notin DOMAIN row'
      BY <1>3, <1>7, <3>1
    <3>3. st = "succeeded" /\ status' = "waiting"
      BY <1>1, <3>1 DEF Written
    <3>4. Debts' <= Credit'
      BY <1>10, <1>12, <1>13, <1>14, <3>3 DEF Debts
    <3>5. Resting'
      BY <1>5, <3>2, <3>3, <3>4 DEF Resting
    <3>6. Reserved'
      <4>1. Gate + 1 \in 1 .. Top - 1 /\ Gate + 1 # s
        BY <1>7, <3>1
      <4>2. Gate + 1 \in DOMAIN row /\ row[Gate + 1].key = "reserve"
        BY <1>3, <1>7, <2>2, <4>1 DEF Lined
      <4>3. Reserved
        BY <4>2 DEF Done, Honest, Placed
      <4> QED
        BY <4>3 DEF Written
    <3> QED
      BY <2>2, <3>5, <3>6 DEF Ending
  <2>3. CASE ~Lined /\ ~Lined'
    <3>1. s # Top /\ Top \notin DOMAIN row
      BY <1>20, <2>3 DEF Honest, Ending
    <3> QED
      BY <1>3, <1>5, <2>3, <3>1 DEF Ending, Idle
  <2> QED
    BY <2>1, <2>2, <2>3
<1>23. Finished'
  <2> SUFFICES ASSUME status' = "completed" PROVE Finished'
    BY DEF Finished
  <2>1. k = "close" /\ AllVerified /\ UNCHANGED action
    BY <1>1, <1>4 DEF Written
  <2>2. s = Top
    <3>1. Top \in 1 .. Top /\ Place(k) = Top
      BY <1>7, <2>1
    <3> QED
      BY <1>6, <1>7, <1>8, <3>1
  <2>3. Lined /\ Woken
    BY <1>18, <1>20, <2>2
  <2>4. Version >= 1
    <3>1. "close" \in Later
      BY CommitmentKeys DEF Later, CommitKeys
    <3> QED
      BY <1>6, <2>1, <3>1
  <2>5. Version' = Version /\ Version \in 1 .. MaxPlans
    <3>1. Version' = Version
      BY <1>1, <2>1 DEF Written, Version
    <3> QED
      BY <1>6, <2>4, <3>1, BasePlanning DEF Planning
  <2>6. ASSUME NEW j \in DocKinds PROVE "verified" \in action[j][Version]
    <3>1. PICK i \in {Gate + 2, Gate + 3} : Arc[i] = j
      BY <1>7 DEF DocKinds
    <3>2. i \in DOMAIN row /\ row[i].key = j /\ i \notin {Gate, Top}
      BY <1>7, <2>3, <3>1 DEF Lined
    <3>3. row[i].status # "failed"
      BY <2>3, <3>2 DEF Woken, Failed
    <3>4. Gate - 2 \in DOMAIN row /\ row[Gate - 2].key = "strategy"
      BY <1>7, <2>3 DEF Lined
    <3>5. action[j][Version] # {}
      BY <3>2, <3>3, <3>4 DEF Honest, Fresh
    <3>6. "failed" \notin action[j][Version]
      BY <2>1, <2>5 DEF AllVerified, ActionKinds
    <3>7. action[j][Version] \in SUBSET {"verified", "failed"}
      <4>1. action \in [ActionKinds -> [1 .. MaxPlans -> SUBSET {"verified", "failed"}]]
        BY DEF Base, TypeOK
      <4>2. j \in ActionKinds
        BY DEF ActionKinds
      <4> QED
        BY <2>5, <4>1, <4>2
    <3> QED
      BY <3>5, <3>6, <3>7
  <2> QED
    BY <1>5, <2>1, <2>4, <2>5, <2>6 DEF Finished
<1> QED
  BY <1>11, <1>15, <1>16, <1>17, <1>22, <1>23 DEF Honest

\* An answer pays for its request, and a refusal owes a failure instead.  Where the
\* line was done it was the last request, and the delay had been reported.
LEMMA AnswerIsHonest ==
    ASSUME Base, Honest, NEW a \in DOMAIN approval, Approve(a) \/ Reject(a)
    PROVE  Honest'
<1>1. PICK d \in {"approved", "rejected"}, st \in {"succeeded", "failed"} :
         /\ Decision(a, d) /\ row' = Answered(st)
         /\ status' = IF st = "failed" THEN "failed" ELSE "executing"
         /\ UNCHANGED <<plan, action, call, disrupted>>
  BY DEF Approve, Reject, worldVars
<1>2. a \in Asked /\ Asked' = Asked \ {a}
  <2>1. \A b \in DOMAIN approval :
            approval[b] \in [version : 1 .. Version, decision : Decisions]
    BY BasePlanning
  <2>2. /\ DOMAIN approval' = DOMAIN approval
        /\ \A b \in DOMAIN approval : approval'[b] =
              IF b = a THEN [approval[b] EXCEPT !.decision = d] ELSE approval[b]
    BY <1>1 DEF Decision
  <2>3. \A b \in DOMAIN approval : Pending(b)' <=> Pending(b) /\ b # a
    BY <2>1, <2>2 DEF Pending
  <2> QED
    BY <1>1, <2>2, <2>3 DEF Asked, Decision
<1>3. /\ DOMAIN row' = DOMAIN row
      /\ \A i \in DOMAIN row : /\ row'[i].key = row[i].key
                               /\ row'[i].status = IF row[i].key = "authorize" THEN st
                                                   ELSE row[i].status
  <2>1. \A i \in DOMAIN row : GoodRow(row[i], Version)
    BY DEF Base, Rows
  <2>2. /\ DOMAIN row' = DOMAIN row
        /\ \A i \in DOMAIN row : row'[i] = IF row[i].key = "authorize"
                                           THEN [row[i] EXCEPT !.status = st] ELSE row[i]
    BY <1>1 DEF Answered
  <2> QED
    BY <2>1, <2>2 DEF GoodRow
<1>4. /\ Done' = Done /\ (Lined' <=> Lined) /\ Version' = Version /\ Reserved' = Reserved
      /\ Idle' = Idle /\ Credit' = Credit
  <2>1. Done' = Done
    BY <1>3 DEF Done
  <2>2. Lined' <=> Lined
    BY <1>3 DEF Lined
  <2> QED
    BY <1>1, <2>1, <2>2 DEF Version, Reserved, Idle, Active, Credit
<1>5. PICK g : \A i \in DOMAIN row : row[i].key = "authorize" => i = g
  BY DEF Honest, Placed, Unique
<1>6. /\ Failed' \subseteq Failed \cup {g}
      /\ \A i \in Failed' : i = g \/ i \in Failed
      /\ st = "succeeded" => Failed' \subseteq Failed
  BY <1>3, <1>5 DEF Failed
<1>7. /\ IsFiniteSet(Asked) /\ IsFiniteSet(Failed) /\ Credit \in {0, 1}
      /\ (Credit = 1 <=> disrupted)
      /\ Cardinality(Asked) \in Nat /\ Cardinality(Failed) \in Nat
      /\ Debts = Cardinality(Asked) + Cardinality(Failed)
      /\ Failed # {} => Cardinality(Failed) >= 1
  BY DebtsCounted DEF Debts
<1>8. /\ Cardinality(Asked') = Cardinality(Asked) - 1 /\ IsFiniteSet(Asked')
      /\ Cardinality(Asked') \in Nat
  BY <1>2, <1>7, FS_RemoveElement, FS_CardinalityType
<1>9. /\ Cardinality(Failed') \in Nat /\ Cardinality(Failed') <= Cardinality(Failed) + 1
      /\ st = "succeeded" => Cardinality(Failed') <= Cardinality(Failed)
  <2>1. /\ IsFiniteSet(Failed \cup {g}) /\ Cardinality(Failed \cup {g}) \in Nat
        /\ Cardinality(Failed \cup {g}) <= Cardinality(Failed) + 1
    BY <1>7, OneMore, FS_AddElement
  <2>2. Failed' \in SUBSET (Failed \cup {g})
    BY <1>6
  <2>3. IsFiniteSet(Failed') /\ Cardinality(Failed') <= Cardinality(Failed \cup {g})
    BY <2>1, <2>2, FS_Subset
  <2>4. Cardinality(Failed') \in Nat
    BY <2>3, FS_CardinalityType
  <2>5. st = "succeeded" => Cardinality(Failed') <= Cardinality(Failed)
    <3>1. st = "succeeded" => Failed' \in SUBSET Failed
      BY <1>6
    <3> QED
      BY <1>7, <3>1, FS_Subset
  <2> QED
    BY <1>7, <2>1, <2>3, <2>4, <2>5
<1>10. Debts <= Credit + 1 /\ (~Idle => Debts <= Credit)
  BY DEF Honest, Solvent, Stopped
<1>11. Solvent'
  <2>1. PICK n : n = Debts'
    OBVIOUS
  <2>2. n = Cardinality(Asked') + Cardinality(Failed')
    BY <2>1 DEF Debts
  <2>3. n <= Credit + 1
    BY <1>7, <1>8, <1>9, <1>10, <2>2
  <2>4. CASE st = "succeeded"
    <3>1. n <= Credit
      BY <1>7, <1>8, <1>9, <1>10, <2>2, <2>4
    <3> QED
      BY <1>1, <1>4, <2>1, <2>3, <2>4, <3>1 DEF Solvent
  <2>5. CASE st = "failed"
    <3>1. ~Idle => n <= Credit
      BY <1>7, <1>8, <1>9, <1>10, <2>2
    <3> QED
      BY <1>1, <1>4, <2>1, <2>3, <2>5, <3>1 DEF Solvent, Stopped
  <2> QED
    BY <2>4, <2>5
<1>12. Placed'
  <2>1. Unique'
    BY <1>3 DEF Honest, Placed, Unique
  <2> QED
    BY <1>3, <1>4, <2>1 DEF Honest, Placed
<1>13. Lone'
  <2>1. \A k, s : Begun(k, s)' <=> Begun(k, s)
    BY <1>4 DEF Begun
  <2>2. \A c \in Calls : Active(c)' <=> Active(c)
    BY <1>1 DEF Active
  <2>3. \A c \in Calls : Active(c)' => Begun(call[c].key, call[c].seq)'
    BY <1>1, <2>1, <2>2 DEF Honest, Lone
  <2> QED
    BY <1>1, <1>4, <2>2, <2>3 DEF Honest, Lone
<1>14. Ending'
  <2>1. ASSUME Lined PROVE Reserved' /\ Woken'
    <3>1. Reserved /\ Debts <= Credit
      BY <1>2, <2>1 DEF Honest, Ending, Resting, Woken
    <3>2. Credit = 1 /\ Cardinality(Asked') = 0 /\ Cardinality(Failed) = 0
      BY <1>7, <1>8, <3>1
    <3>3. disrupted /\ Asked' = {} /\ Failed = {}
      BY <1>7, <1>8, <3>2, FS_EmptySet
    <3>4. Gate \in DOMAIN row /\ row[Gate].key = "authorize"
      BY <2>1, PlaceIs DEF Lined
    <3>5. Failed' \subseteq {Gate, Top}
      BY <1>5, <1>6, <3>3, <3>4
    <3> QED
      BY <1>1, <1>4, <3>1, <3>3, <3>5 DEF Woken
  <2>2. Top \in DOMAIN row' \/ (\E c \in Calls : Active(c)' /\ call'[c].seq = Top) => Lined
    BY <1>1, <1>3 DEF Honest, Ending, Active
  <2> QED
    BY <1>4, <2>1, <2>2 DEF Ending
<1>15. Fresh'
  <2>1. "authorize" \notin DocKinds
    BY DEF DocKinds
  <2> QED
    BY <1>1, <1>3, <1>4, <2>1 DEF Honest, Fresh
<1>16. Finished'
  BY <1>1 DEF Finished
<1> QED
  BY <1>11, <1>12, <1>13, <1>14, <1>15, <1>16 DEF Honest

\* Rewinding takes the line away, and whatever stands behind it.
LEMMA RewindIsHonest ==
    ASSUME Base, Honest, NEW k \in {"sourcing", "strategy", "authorize"}, Rewind(k),
           UNCHANGED <<call, action>>, Version' = Version,
           status' \notin Closed \cup {"awaiting_approval"}, Debts' <= Credit',
           Debts' \in Nat, Credit' \in Nat, ~Woken \/ ~Reserved
    PROVE  Honest'
<1>1. {"authorize", "reserve"} \cup Late \subseteq From(k)
  BY RewindsPastGate
<1>2. /\ DOMAIN row' \subseteq DOMAIN row
      /\ \A i \in DOMAIN row' : row'[i] = row[i] /\ row[i].key \notin From(k)
  BY DEF Rewind, DeleteSteps
<1>3. Placed' /\ Fresh' /\ \A j, s : Begun(j, s) => Begun(j, s)'
  <2>1. Kept
    BY <1>2 DEF Kept
  <2> QED
    BY <2>1, KeptRows
<1>4. Lone'
  <2>1. \A c \in Calls : Active(c)' <=> Active(c)
    BY DEF Active
  <2>2. \A c \in Calls : Active(c) => Begun(call[c].key, call[c].seq)'
    BY <1>3 DEF Honest, Lone
  <2>3. \A c \in Calls : Active(c)' => Begun(call[c].key, call[c].seq)'
    BY <2>1, <2>2
  <2> QED
    BY <2>1, <2>3 DEF Honest, Lone
<1>5. /\ Top \in Nat /\ Top = Gate + 5 /\ Gate \in Nat /\ Gate >= 3
      /\ \A j \in Range(Arc) : Place(j) \in 1 .. Top /\ Arc[Place(j)] = j
      /\ Arc[Gate] = "authorize" /\ Arc[Gate + 5] = "close"
  BY PlaceIs
<1>6. ~Lined'
  <2>1. ASSUME Lined' PROVE FALSE
    <3>1. Gate \in DOMAIN row' /\ row'[Gate].key = "authorize"
      BY <1>5, <2>1 DEF Lined
    <3> QED
      BY <1>1, <1>2, <3>1
  <2> QED
    BY <2>1
<1>7. Top \notin DOMAIN row'
  <2>1. ASSUME Top \in DOMAIN row' PROVE FALSE
    <3>1. Top \in DOMAIN row /\ Lined /\ Unique
      BY <1>2, <2>1 DEF Honest, Ending, Placed
    <3>2. PICK j, p : j = row[Top].key /\ p = Place(j)
      OBVIOUS
    <3>3. j \in Range(Arc) /\ p \in 1 .. Top /\ Arc[p] = j
      BY <1>5, <3>1, <3>2 DEF Base, Rows, GoodRow
    <3>4. p = Top
      <4>1. ASSUME p \in 1 .. Top - 1 PROVE FALSE
        <5>1. p \in DOMAIN row /\ row[p].key = row[Top].key
          BY <3>1, <3>2, <3>3, <4>1 DEF Lined
        <5>2. p = Top
          BY <3>1, <5>1 DEF Unique
        <5> QED
          BY <1>5, <4>1, <5>2
      <4> QED
        BY <1>5, <3>3, <4>1
    <3>5. row[Top].key = "close"
      BY <1>5, <3>2, <3>3, <3>4
    <3> QED
      BY <1>1, <1>2, <2>1, <3>5 DEF Late
  <2> QED
    BY <2>1
<1>8. \A c \in Calls : ~(Active(c) /\ call[c].seq = Top)
  BY DEF Honest, Ending, Resting, Idle
<1>9. Ending'
  BY <1>6, <1>7, <1>8 DEF Ending, Active
<1>10. Solvent'
  <2>1. PICK n, m : n = Debts' /\ m = Credit'
    OBVIOUS
  <2>2. n <= m /\ n \in Nat /\ m \in Nat
    BY <2>1
  <2>3. n <= m + 1
    BY <2>2
  <2> QED
    BY <2>1, <2>2, <2>3 DEF Solvent
<1>11. Finished'
  BY DEF Finished, Closed
<1> QED
  BY <1>3, <1>4, <1>9, <1>10, <1>11 DEF Honest

\* What a person or the world rewinds is paid for: by the answer, by the requests
\* withdrawn, or by the delay itself.
LEMMA PeopleAreHonest ==
    ASSUME Base, Honest,
           \/ \E a \in DOMAIN approval : TryAnother(a)
           \/ Upload \/ \E t \in Tiers : SetAutonomy(t)
           \/ Disrupt
    PROVE  Honest'
<1>1. /\ IsFiniteSet(Asked) /\ IsFiniteSet(Failed) /\ Credit \in {0, 1}
      /\ (Credit = 1 <=> disrupted)
      /\ Cardinality(Asked) \in Nat /\ Cardinality(Failed) \in Nat
      /\ Debts = Cardinality(Asked) + Cardinality(Failed)
      /\ Asked # {} => Cardinality(Asked) >= 1
  BY DebtsCounted DEF Debts
<1>2. Debts <= Credit + 1 /\ (~Stopped => Debts <= Credit)
      /\ (status = "awaiting_approval" => Asked # {})
  BY DEF Honest, Solvent
<1>3. ASSUME NEW k \in {"sourcing", "strategy", "authorize"}, Rewind(k), UNCHANGED action,
             Version' = Version
      PROVE  Cardinality(Failed') \in Nat /\ Cardinality(Failed') <= Cardinality(Failed)
  <2>1. Kept
    BY <1>3 DEF Rewind, DeleteSteps, Kept
  <2> QED
    BY <1>3, <2>1, KeptRows
<1>4. \A a \in DOMAIN approval :
          approval[a] \in [version : 1 .. Version, decision : Decisions]
  BY BasePlanning
<1>5. ASSUME NEW a \in DOMAIN approval, TryAnother(a) PROVE Honest'
  <2>1. /\ Decision(a, "another") /\ Rewind("strategy") /\ status' = "replanning"
        /\ plan' = Supersede(approval[a].version, "refused")
        /\ UNCHANGED <<call, action, disrupted>>
    BY <1>5 DEF TryAnother, worldVars
  <2>2. Version' = Version
    BY <1>4, <2>1, SupersedeKeeps
  <2>3. a \in Asked /\ Asked' = Asked \ {a}
    <3>1. /\ DOMAIN approval' = DOMAIN approval
          /\ \A b \in DOMAIN approval : approval'[b] =
                IF b = a THEN [approval[b] EXCEPT !.decision = "another"] ELSE approval[b]
      BY <2>1 DEF Decision
    <3>2. \A b \in DOMAIN approval : Pending(b)' <=> Pending(b) /\ b # a
      BY <1>4, <3>1 DEF Pending
    <3> QED
      BY <2>1, <3>1, <3>2 DEF Asked, Decision
  <2>4. Cardinality(Asked') = Cardinality(Asked) - 1 /\ Cardinality(Asked') \in Nat
    BY <1>1, <2>3, FS_RemoveElement, FS_CardinalityType
  <2>5. Debts' <= Credit' /\ Debts' \in Nat /\ Credit' \in Nat
    <3>1. Credit' = Credit
      BY <2>1 DEF Credit
    <3> QED
      BY <1>1, <1>2, <1>3, <2>1, <2>2, <2>4, <3>1 DEF Debts
  <2>6. ~Woken
    BY <2>3 DEF Woken
  <2> QED
    BY <2>1, <2>2, <2>5, <2>6, RewindIsHonest DEF Closed
<1>6. ASSUME Upload \/ \E t \in Tiers : SetAutonomy(t) PROVE Honest'
  <2>1. PICK k \in {"sourcing", "authorize"} : Rewind(k)
    BY <1>6 DEF Upload, SetAutonomy
  <2>2. /\ Withdraw /\ status' = "planning" /\ status \notin Closed /\ ~HasActed
        /\ UNCHANGED <<call, action, disrupted>>
    BY <1>6 DEF Upload, SetAutonomy
  <2>3. Version' = Version
    <3>1. CASE Upload
      <4>1. plan' = [v \in 1 .. Version |->
                       IF plan[v].superseded = "no"
                       THEN [plan[v] EXCEPT !.superseded = "overtaken"] ELSE plan[v]]
        BY <3>1 DEF Upload
      <4>2. \A v \in 1 .. Version : plan'[v] \in Plans
        BY <4>1, BasePlanning DEF Plans
      <4>3. plan' \in [1 .. Version -> Plans] /\ Version \in Nat
        BY <4>1, <4>2, BasePlanning
      <4>4. plan' \in Seq(Plans)
        BY <4>3
      <4> QED
        BY <4>3, <4>4 DEF Version
    <3>2. CASE UNCHANGED plan
      BY <3>2 DEF Version
    <3> QED
      BY <1>6, <3>1, <3>2 DEF SetAutonomy
  <2>4. Asked' = {}
    <3>1. /\ DOMAIN approval' = DOMAIN approval
          /\ \A a \in DOMAIN approval : approval'[a] =
                IF Pending(a) THEN [approval[a] EXCEPT !.decision = "withdrawn"] ELSE approval[a]
      BY <2>2 DEF Withdraw
    <3>2. \A a \in DOMAIN approval' : ~Pending(a)'
      BY <1>4, <3>1 DEF Pending
    <3> QED
      BY <3>2 DEF Asked
  <2>5. Cardinality(Asked') = 0
    BY <2>4, FS_EmptySet
  <2>6. Cardinality(Failed) <= Credit
    <3>1. Stopped => Asked # {}
      BY <1>2, <2>2 DEF Stopped, Closed
    <3> QED
      BY <1>1, <1>2, <3>1
  <2>7. Debts' <= Credit' /\ Debts' \in Nat /\ Credit' \in Nat
    <3>1. Credit' = Credit
      BY <2>2 DEF Credit
    <3>2. Cardinality(Failed') \in Nat /\ Cardinality(Failed') <= Cardinality(Failed)
      BY <1>3, <2>1, <2>2, <2>3
    <3> QED
      BY <1>1, <2>5, <2>6, <3>1, <3>2 DEF Debts
  <2>8. ~Reserved
    BY <2>2 DEF HasActed, Reserved, ActionKinds
  <2> QED
    BY <2>1, <2>2, <2>3, <2>7, <2>8, RewindIsHonest DEF Closed
<1>7. ASSUME Disrupt PROVE Honest'
  <2>1. /\ ~disrupted /\ disrupted' = TRUE /\ Version > 0
        /\ UNCHANGED <<approval, action, call>>
    BY <1>7 DEF Disrupt
  <2>2. Asked' = Asked /\ Credit = 0 /\ Credit' = 1 /\ ~Woken
    BY <1>1, <2>1 DEF Asked, Pending, Credit, Woken
  <2>3. CASE UNCHANGED <<row, plan, status>>
    <3>1. /\ Failed' = Failed /\ Done' = Done /\ Unique' = Unique /\ Lined' = Lined
          /\ Debts' = Debts
      BY <2>1, <2>3, DebtsSame
    <3>2. Version' = Version /\ Reserved' = Reserved /\ Idle' = Idle
      BY <2>1, <2>3 DEF Version, Reserved, Idle, Active
    <3>3. Debts <= 1 /\ Debts <= 1 + 1 /\ Debts \in Nat
      BY <1>1, <1>2, <2>2
    <3>4. Solvent'
      BY <2>2, <2>3, <3>1, <3>3 DEF Solvent, Honest
    <3>5. Lone'
      <4>1. \A k, s : Begun(k, s)' <=> Begun(k, s)
        BY <3>1 DEF Begun
      <4>2. \A c \in Calls : Active(c)' <=> Active(c)
        BY <2>1 DEF Active
      <4>3. \A c \in Calls : Active(c)' => Begun(call[c].key, call[c].seq)'
        BY <2>1, <4>1, <4>2 DEF Honest, Lone
      <4> QED
        BY <2>1, <3>2, <4>2, <4>3 DEF Honest, Lone
    <3>6. Lined => Reserved /\ Resting'
      BY <2>2, <2>3, <3>1, <3>2, <3>3 DEF Honest, Ending, Resting
    <3>7. Ending'
      BY <2>1, <2>3, <3>1, <3>2, <3>6 DEF Honest, Ending, Active
    <3>8. Placed' /\ Fresh' /\ Finished'
      BY <2>1, <2>3, <3>1, <3>2 DEF Honest, Placed, Fresh, Finished
    <3> QED
      BY <3>4, <3>5, <3>7, <3>8 DEF Honest
  <2>4. CASE Rewind("strategy") /\ plan' = Supersede(Version, "overtaken")
             /\ status' = "replanning"
    <3>1. Version' = Version
      <4>1. Version \in 1 .. Version
        BY <2>1, BasePlanning
      <4> QED
        BY <2>4, <4>1, SupersedeKeeps
    <3>2. Cardinality(Failed') \in Nat /\ Cardinality(Failed') <= Cardinality(Failed)
      BY <1>3, <2>1, <2>4, <3>1
    <3>3. Debts' <= Credit' /\ Debts' \in Nat /\ Credit' \in Nat
      BY <1>1, <1>2, <2>2, <3>2 DEF Debts
    <3> QED
      BY <2>1, <2>2, <2>4, <3>1, <3>3, RewindIsHonest DEF Closed
  <2> QED
    BY <1>7, <2>3, <2>4 DEF Disrupt
<1> QED
  BY <1>5, <1>6, <1>7

LEMMA HonestInitially ==
    ASSUME Init
    PROVE  Honest
<1>1. row = << >> /\ approval = << >> /\ DOMAIN row = {} /\ DOMAIN approval = {}
  BY DEF Init
<1>2. \A c \in Calls : ~Active(c) /\ call[c].pc \notin Engaged
  BY DEF Init, NoCall, Active, Engaged
<1>3. Done = {} /\ Failed = {} /\ Asked = {}
  BY <1>1 DEF Done, Failed, Asked
<1>4. Debts = 0
  <2>1. Cardinality({}) = 0
    BY FS_EmptySet
  <2> QED
    BY <1>3, <2>1 DEF Debts
<1>5. status = "planning" /\ Credit = 0
  BY DEF Init, Credit
<1>6. Solvent
  BY <1>4, <1>5 DEF Solvent
<1>7. Placed /\ Lone /\ Fresh /\ Finished
  BY <1>1, <1>2, <1>3, <1>5 DEF Placed, Unique, Lone, Fresh, Finished
<1>8. ~Lined
  <2>1. 1 \in 1 .. Top - 1
    BY PlaceIs
  <2> QED
    BY <1>1, <2>1 DEF Lined
<1>9. Ending
  BY <1>1, <1>2, <1>8 DEF Ending
<1> QED
  BY <1>6, <1>7, <1>9 DEF Honest

LEMMA HonestNext ==
    ASSUME Base, Honest, [Next]_vars, clicks = 0, clicks' = 0
    PROVE  Honest'
<1>1. ASSUME NEW c \in Calls, Advance(c) \/ Retry(c) PROVE Honest'
  BY <1>1, AdvanceIsHonest, RetryIsHonest
<1>2. ASSUME NEW c \in Calls,
             \/ Observe(c) \/ Publish(c) \/ Critique(c) \/ Authorize(c) \/ Reserve(c)
             \/ Unresolved(c) \/ Record(c) \/ Watch(c) \/ (Close(c) /\ row' # row)
      PROVE  Honest'
  BY <1>2, WritesAre, WriteIsHonest
<1>3. ASSUME NEW c \in Calls,
             \/ Propose(c) \/ NoCandidate(c) \/ Gather(c) \/ PortDone(c) \/ PortRefused(c)
             \/ RecordClash(c) \/ Clash(c) \/ Crash(c) \/ (Close(c) /\ row' = row)
             \/ \E p \in Vendors \cup MakeLines : Claim(c, p) \/ Replay(c, p) \/ Yield(c, p)
      PROVE  Honest'
  BY <1>3, StillsAre, StillIsHonest
<1>4. ASSUME NEW a \in DOMAIN approval, Approve(a) \/ Reject(a) PROVE Honest'
  BY <1>4, AnswerIsHonest
<1>5. ASSUME \/ \E a \in DOMAIN approval : TryAnother(a)
             \/ Upload \/ \E t \in Tiers : SetAutonomy(t)
             \/ Disrupt
      PROVE  Honest'
  BY <1>5, PeopleAreHonest
<1>6. ASSUME ArmFault \/ UNCHANGED vars PROVE Honest'
  <2>1. Still
    BY <1>6 DEF ArmFault, vars, missionVars, worldVars, Still, Active, Engaged
  <2> QED
    BY <2>1, StillIsHonest
<1> QED
  BY <1>1, <1>2, <1>3, <1>4, <1>5, <1>6 DEF Next, Step, Person

\* A mission whose calls come one at a time is completed only when every document
\* of the plan in force has been raised, whatever is answered, refused, rewound,
\* delayed or crashes, and however often steps fail and are run again.
THEOREM CompletedInFull ==
    Spec => []CompletedIsProven
<1> DEFINE Inv == /\ Keyed /\ AllCovered /\ Proven /\ clicks \in Nat
                  /\ clicks = 0 => Honest
<1>1. Init => Inv
  <2> SUFFICES ASSUME Init PROVE Inv
    OBVIOUS
  <2>1. AllCovered /\ Proven /\ clicks \in Nat
    BY DEF Init, NoCall, AllCovered, Covered, Engaged, Proven, DocKinds, ActionKinds
  <2> QED
    BY <2>1, KeyedInitially, HonestInitially
<1>2. Inv /\ [Next]_vars => Inv'
  <2> SUFFICES ASSUME Inv, [Next]_vars PROVE Inv'
    OBVIOUS
  <2>1. Keyed' /\ AllCovered' /\ Proven' /\ Base
    BY KeyedNext, CoveredKept, ProvenKept DEF Keyed
  <2>2. clicks' \in Nat /\ (clicks' = 0 => clicks = 0)
    BY ClicksGrow
  <2>3. clicks' = 0 => Honest'
    BY <2>1, <2>2, HonestNext
  <2> QED
    BY <2>1, <2>2, <2>3
<1>3. Inv => CompletedIsProven
  <2> SUFFICES ASSUME Inv, clicks = 0, status = "completed",
                      NEW k \in DocKinds, NEW p \in Parties(k, Version)
               PROVE  raised[<<k, Version, p>>] = 1
    BY DEF CompletedIsProven, OneAtATime
  <2>1. Version \in 1 .. MaxPlans
    BY BasePlanning DEF Keyed, Planning, Honest, Finished
  <2>2. "verified" \in action[k][Version]
    BY DEF Honest, Finished
  <2> QED
    BY <2>1, <2>2 DEF Proven
<1> HIDE DEF Inv
<1> QED
  BY <1>1, <1>2, <1>3, PTL DEF Spec
=============================================================================
