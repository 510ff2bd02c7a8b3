----------------------------- MODULE BusProofs ------------------------------
(***************************************************************************)
(* The outbox keeps its promise for any number of relays, job slots,       *)
(* events, rollbacks, failures and stalls.                                 *)
(***************************************************************************)
EXTENDS EventBus, WellFoundedInduction, TLAPS

\* The oldest row of a batch is one of its rows.
LEMMA LeastExists ==
    ASSUME NEW S \in SUBSET Nat, S # {}
    PROVE  Min(S) \in S
<1> DEFINE Before == OpToRel(<, Nat)
<1>1. IsWellFoundedOn(Before, Nat)
  BY NatLessThanWellFounded
<1>2. \A y, x \in Nat : y < x => <<y, x>> \in Before
  BY DEF OpToRel
<1> HIDE DEF Before
<1>3. PICK x \in S : \A y \in S : ~ (<<y, x>> \in Before)
  BY <1>1, WFMin
<1>4. \A y \in S : ~ (y < x)
  BY <1>2, <1>3
<1>5. \A y \in S : x <= y
  BY <1>4
<1> QED
  BY <1>5 DEF Min

\* What a relay ships is a row it holds.
LEMMA ShipsItsOwn ==
    ASSUME TypeOK, NEW r \in Relays, batch[r] # {}
    PROVE  Min(batch[r]) \in batch[r] /\ Min(batch[r]) \in Events
<1>1. batch[r] \in SUBSET Events
  BY DEF TypeOK
<1>2. batch[r] \in SUBSET Nat
  BY <1>1, BusAssumption DEF BusAssumption
<1> QED
  BY <1>1, <1>2, LeastExists

\* The state of the relays after each of their steps, and of the faults.
LEMMA RelayTypes ==
    ASSUME TypeOK, NEW r \in Relays, Relay(r) \/ Rollback(r)
    PROVE  TypeOK'
<1>1. CASE ClaimBatch(r)
  <2>1. Oldest(Unpublished \ Locked, Batch) \in SUBSET Events
    BY DEF Oldest, Unpublished
  <2> QED
    BY <1>1, <2>1 DEF ClaimBatch, TypeOK, queueVars, effectVars
<1>2. CASE Ship(r)
  <2> DEFINE e == Min(batch[r])
  <2>1. e \in batch[r] /\ e \in Events
    BY <1>2, ShipsItsOwn DEF Ship
  <2> HIDE DEF e
  <2>2. /\ job' = IF job[e] = "none" THEN [job EXCEPT ![e] = "waiting"] ELSE job
        /\ stalls' = IF job[e] = "none" THEN [stalls EXCEPT ![e] = 0] ELSE stalls
        /\ batch' = [batch EXCEPT ![r] = @ \ {e}]
        /\ marked' = [marked EXCEPT ![r] = @ \cup {e}]
        /\ UNCHANGED <<outbox, owner, slot, ledger, effects, faults>>
    BY <1>2 DEF Ship, e, effectVars
  <2>3. batch' \in [Relays -> SUBSET Events] /\ marked' \in [Relays -> SUBSET Events]
    BY <2>1, <2>2 DEF TypeOK
  <2>4. job' \in [Events -> {"none", "waiting", "active", "failed"}]
        /\ \A d \in Events : job'[d] = "active" <=> job[d] = "active"
    BY <2>1, <2>2 DEF TypeOK
  <2>5. stalls' \in [Events -> 0..StallLimit]
    BY <2>1, <2>2 DEF TypeOK, StallLimit
  <2> QED
    BY <2>2, <2>3, <2>4, <2>5 DEF TypeOK
<1>3. CASE Commit(r)
  <2>1. outbox' \in [Events -> {"absent", "unpublished", "published"}]
    BY <1>3 DEF Commit, TypeOK
  <2> QED
    BY <1>3, <2>1 DEF Commit, TypeOK, queueVars, effectVars
<1>4. CASE Rollback(r)
  <2>1. faults' \in [rollbacks : 0..MaxRollbacks, throws : 0..MaxThrows, stalls : 0..MaxStalls]
    BY <1>4, BusAssumption DEF Rollback, TypeOK, BusAssumption
  <2> QED
    BY <1>4, <2>1 DEF Rollback, TypeOK, queueVars, effectVars
<1> QED
  BY <1>1, <1>2, <1>3, <1>4 DEF Relay

\* A slot that works holds an event, and settling its job keeps the types.
LEMMA SettleTypes ==
    ASSUME TypeOK, NEW c \in Consumers, slot[c] # Free,
           NEW s \in {"none", "failed"}, Settle(c, s)
    PROVE  /\ slot[c].event \in Events
           /\ slot' \in [Consumers -> {Free} \cup [event : Events, phase : {"react", "ack"}]]
           /\ job' \in [Events -> {"none", "waiting", "active", "failed"}]
           /\ owner' \in [Events -> Consumers \cup {Nobody}]
           /\ \A e \in Events : owner'[e] # Nobody <=> job'[e] = "active"
<1>1. slot[c] \in [event : Events, phase : {"react", "ack"}]
  BY DEF TypeOK
<1> DEFINE e == slot[c].event
<1>2. e \in Events
  BY <1>1
<1>3. slot' \in [Consumers -> {Free} \cup [event : Events, phase : {"react", "ack"}]]
  BY DEF TypeOK, Settle
<1>4. CASE job[e] = "active" /\ owner[e] = c
  BY <1>2, <1>3, <1>4 DEF TypeOK, Settle
<1>5. CASE ~ (job[e] = "active" /\ owner[e] = c)
  BY <1>2, <1>3, <1>5 DEF TypeOK, Settle
<1> QED
  BY <1>4, <1>5

LEMMA ConsumerTypes ==
    ASSUME TypeOK, NEW c \in Consumers, Consume(c) \/ Throw(c)
    PROVE  TypeOK'
<1>1. CASE Take(c)
  <2>1. PICK e \in Events :
          /\ job[e] = "waiting"
          /\ job' = [job EXCEPT ![e] = "active"]
          /\ owner' = [owner EXCEPT ![e] = c]
          /\ slot' = [slot EXCEPT ![c] = [event |-> e, phase |-> "react"]]
    BY <1>1 DEF Take
  <2>2. slot' \in [Consumers -> {Free} \cup [event : Events, phase : {"react", "ack"}]]
    BY <2>1 DEF TypeOK
  <2>3. job' \in [Events -> {"none", "waiting", "active", "failed"}]
        /\ owner' \in [Events -> Consumers \cup {Nobody}]
    BY <2>1 DEF TypeOK
  <2>4. \A d \in Events : owner'[d] # Nobody <=> job'[d] = "active"
    BY <2>1, BusAssumption DEF TypeOK, BusAssumption
  <2> QED
    BY <1>1, <2>2, <2>3, <2>4 DEF Take, TypeOK, relayVars, effectVars
<1>2. CASE React(c)
  <2>1. slot[c] # Free /\ slot[c] \in [event : Events, phase : {"react", "ack"}]
    BY <1>2 DEF React, TypeOK, Free
  <2>2. slot' \in [Consumers -> {Free} \cup [event : Events, phase : {"react", "ack"}]]
    <3>1. [slot[c] EXCEPT !.phase = "ack"] \in [event : Events, phase : {"react", "ack"}]
      BY <2>1
    <3> QED
      BY <1>2, <3>1 DEF React, TypeOK
  <2>3. ledger' \subseteq Events /\ effects' \in [Events -> Nat]
    BY <1>2, <2>1 DEF React, TypeOK
  <2> QED
    BY <1>2, <2>2, <2>3 DEF React, TypeOK, relayVars, queueVars
<1>3. CASE Ack(c)
  <2>1. slot[c] # Free
    BY <1>3 DEF Ack, Free
  <2> QED
    BY <1>3, <2>1, SettleTypes DEF Ack, TypeOK, relayVars, effectVars
<1>4. CASE Throw(c)
  <2>1. slot[c] # Free
    BY <1>4 DEF Throw, Free
  <2>2. faults' \in [rollbacks : 0..MaxRollbacks, throws : 0..MaxThrows, stalls : 0..MaxStalls]
    BY <1>4, BusAssumption DEF Throw, TypeOK, BusAssumption
  <2> QED
    BY <1>4, <2>1, <2>2, SettleTypes DEF Throw, TypeOK, relayVars, effectVars
<1> QED
  BY <1>1, <1>2, <1>3, <1>4 DEF Consume

LEMMA StallTypes ==
    ASSUME TypeOK, NEW e \in Events, Stall(e)
    PROVE  TypeOK'
<1>1. owner[e] \in Consumers
  BY DEF Stall, TypeOK
<1>2. slot' \in [Consumers -> {Free} \cup [event : Events, phase : {"react", "ack"}]]
  BY <1>1 DEF Stall, TypeOK
<1>3. job' \in [Events -> {"none", "waiting", "active", "failed"}]
      /\ owner' \in [Events -> Consumers \cup {Nobody}]
      /\ \A d \in Events : owner'[d] # Nobody <=> job'[d] = "active"
  BY DEF Stall, TypeOK
<1>4. stalls' \in [Events -> 0..StallLimit]
  BY DEF Stall, TypeOK, StallLimit
<1>5. faults' \in [rollbacks : 0..MaxRollbacks, throws : 0..MaxThrows, stalls : 0..MaxStalls]
  BY BusAssumption DEF Stall, StallCount, TypeOK, BusAssumption
<1> QED
  BY <1>2, <1>3, <1>4, <1>5 DEF Stall, TypeOK, relayVars, effectVars

\* Whatever relays, slots and faults do: a job carries a lock exactly as long as
\* it is active, and is never taken back more often than BullMQ allows.
THEOREM TypeCorrect == Spec => []TypeOK
<1>1. Init => TypeOK
  BY BusAssumption DEF Init, TypeOK, BusAssumption, StallLimit
<1>2. TypeOK /\ [Next]_vars => TypeOK'
  <2> SUFFICES ASSUME TypeOK, [Next]_vars PROVE TypeOK'
    OBVIOUS
  <2>1. ASSUME NEW e \in Events, Stage(e) PROVE TypeOK'
    BY <2>1 DEF Stage, TypeOK, relayVars, queueVars, effectVars
  <2>2. CASE UNCHANGED vars
    BY <2>2 DEF vars, relayVars, queueVars, effectVars, TypeOK
  <2> QED
    BY <2>1, <2>2, StallTypes, RelayTypes, ConsumerTypes DEF Next
<1> QED
  BY <1>1, <1>2, PTL DEF Spec

-----------------------------------------------------------------------------
(***************************************************************************)
(* The relays: no row in two hands, none marked before the queue has it.   *)
(***************************************************************************)
Held(r) == batch[r] \cup marked[r]

\* A slot that has only to settle its job has its ledger row.
Acked == \A c \in Consumers : slot[c].phase = "ack" => slot[c].event \in ledger

\* No relay holds the row of another after a step of one of them.
LEMMA RelayKeepsApart ==
    ASSUME TypeOK, RelaysApart, NEW r \in Relays, Relay(r) \/ Rollback(r)
    PROVE  RelaysApart'
<1> USE DEF Held
<1>1. CASE ClaimBatch(r)
  <2>1. /\ batch' = [batch EXCEPT ![r] = Oldest(Unpublished \ Locked, Batch)]
        /\ UNCHANGED <<outbox, marked>> /\ marked[r] = {}
    BY <1>1 DEF ClaimBatch
  <2>2. Oldest(Unpublished \ Locked, Batch) \subseteq Unpublished \ Locked
    BY DEF Oldest
  <2>3. Held(r)' \subseteq Unpublished \ Locked
    BY <2>1, <2>2 DEF TypeOK
  <2>4. \A s \in Relays \ {r} : Held(s)' = Held(s) /\ Held(s) \subseteq Locked
    BY <2>1 DEF TypeOK, Locked
  <2>5. Unpublished' = Unpublished
    BY <2>1 DEF Unpublished
  <2> QED
    BY <2>3, <2>4, <2>5 DEF RelaysApart
<1>2. CASE Ship(r)
  <2> DEFINE e == Min(batch[r])
  <2>1. e \in batch[r]
    BY <1>2, ShipsItsOwn DEF Ship
  <2>2. /\ batch' = [batch EXCEPT ![r] = @ \ {e}]
        /\ marked' = [marked EXCEPT ![r] = @ \cup {e}]
        /\ UNCHANGED outbox
    BY <1>2 DEF Ship
  <2> HIDE DEF e
  <2>3. \A s \in Relays : Held(s)' = Held(s)
    BY <2>1, <2>2 DEF TypeOK
  <2>4. Unpublished' = Unpublished
    BY <2>2 DEF Unpublished
  <2> QED
    BY <2>3, <2>4 DEF RelaysApart
<1>3. CASE Commit(r)
  <2>1. \A s \in Relays : Held(s)' = IF s = r THEN {} ELSE Held(s)
    BY <1>3 DEF Commit, TypeOK
  <2>2. Unpublished \ marked[r] \subseteq Unpublished'
    BY <1>3 DEF Commit, TypeOK, Unpublished
  <2> QED
    BY <2>1, <2>2 DEF RelaysApart
<1>4. CASE Rollback(r)
  <2>1. \A s \in Relays : Held(s)' = IF s = r THEN {} ELSE Held(s)
    BY <1>4 DEF Rollback, TypeOK
  <2>2. Unpublished' = Unpublished
    BY <1>4 DEF Rollback, Unpublished
  <2> QED
    BY <2>1, <2>2 DEF RelaysApart
<1> QED
  BY <1>1, <1>2, <1>3, <1>4 DEF Relay

\* "So parallel relays never grab the same note", for any number of relays.
THEOREM RowsInOneHand == Spec => []RelaysApart
<1>1. Init => RelaysApart
  BY DEF Init, RelaysApart
<1>2. TypeOK /\ RelaysApart /\ [Next]_vars => RelaysApart'
  <2> SUFFICES ASSUME TypeOK, RelaysApart, [Next]_vars PROVE RelaysApart'
    OBVIOUS
  <2>1. ASSUME NEW e \in Events, Stage(e) PROVE RelaysApart'
    <3>1. Unpublished \subseteq Unpublished'
      BY <2>1 DEF Stage, Unpublished, TypeOK
    <3> QED
      BY <2>1, <3>1 DEF Stage, relayVars, RelaysApart
  <2>2. ASSUME UNCHANGED <<outbox, relayVars>> PROVE RelaysApart'
    BY <2>2 DEF relayVars, RelaysApart, Unpublished
  <2>3. ASSUME NEW e \in Events, Stall(e) PROVE RelaysApart'
    BY <2>2, <2>3 DEF Stall
  <2>4. ASSUME NEW c \in Consumers, Consume(c) \/ Throw(c) PROVE RelaysApart'
    BY <2>2, <2>4 DEF Consume, Take, React, Ack, Throw
  <2>5. CASE UNCHANGED vars
    BY <2>2, <2>5 DEF vars
  <2> QED
    BY <2>1, <2>3, <2>4, <2>5, RelayKeepsApart DEF Next
<1> QED
  BY <1>1, <1>2, TypeCorrect, PTL DEF Spec

\* Only an event whose consumer has its ledger row leaves the queue, and nothing
\* leaves the ledger.
LEMMA QueueKeeps ==
    ASSUME TypeOK, Acked, [Next]_vars
    PROVE  /\ Acked' /\ ledger \subseteq ledger'
           /\ \A e \in Events : job[e] # "none" => job'[e] # "none" \/ e \in ledger
<1>1. ASSUME NEW e \in Events, Stage(e)
      PROVE  UNCHANGED <<job, slot, ledger>>
  BY <1>1 DEF Stage, queueVars, effectVars
<1>2. ASSUME NEW r \in Relays, Relay(r) \/ Rollback(r)
      PROVE  UNCHANGED <<slot, ledger>>
             /\ \A e \in Events : job[e] # "none" => job'[e] # "none"
  <2>1. CASE Ship(r)
    <3> DEFINE d == Min(batch[r])
    <3>1. d \in Events
      BY <2>1, ShipsItsOwn DEF Ship
    <3>2. job' = IF job[d] = "none" THEN [job EXCEPT ![d] = "waiting"] ELSE job
      BY <2>1 DEF Ship
    <3> HIDE DEF d
    <3> QED
      BY <2>1, <3>1, <3>2 DEF Ship, TypeOK, effectVars
  <2> QED
    BY <1>2, <2>1 DEF Relay, ClaimBatch, Commit, Rollback, queueVars, effectVars
<1>3. ASSUME NEW c \in Consumers, Consume(c) \/ Throw(c)
      PROVE  /\ Acked' /\ ledger \subseteq ledger'
             /\ \A e \in Events : job[e] # "none" => job'[e] # "none" \/ e \in ledger
  <2>1. CASE Take(c)
    BY <2>1 DEF Take, Acked, TypeOK, effectVars
  <2>2. CASE React(c)
    BY <2>2 DEF React, Acked, TypeOK, queueVars
  <2>3. CASE Ack(c)
    <3>1. slot[c].event \in ledger
      BY <2>3 DEF Ack, Acked
    <3>2. UNCHANGED ledger /\ slot' = [slot EXCEPT ![c] = Free]
      BY <2>3 DEF Ack, Settle, effectVars
    <3>3. Acked'
      BY <3>2 DEF Acked, TypeOK, Free
    <3>4. \A e \in Events : e # slot[c].event => job'[e] = job[e]
      BY <2>3 DEF Ack, Settle, TypeOK
    <3> QED
      BY <3>1, <3>2, <3>3, <3>4
  <2>4. CASE Throw(c)
    <3>1. UNCHANGED ledger /\ slot' = [slot EXCEPT ![c] = Free]
      BY <2>4 DEF Throw, Settle, effectVars
    <3>2. Acked'
      BY <3>1 DEF Acked, TypeOK, Free
    <3>3. \A e \in Events : job[e] # "none" => job'[e] # "none"
      BY <2>4 DEF Throw, Settle, TypeOK
    <3> QED
      BY <3>1, <3>2, <3>3
  <2> QED
    BY <1>3, <2>1, <2>2, <2>3, <2>4 DEF Consume
<1>4. ASSUME NEW e \in Events, Stall(e)
      PROVE  /\ Acked' /\ ledger \subseteq ledger'
             /\ \A d \in Events : job[d] # "none" => job'[d] # "none"
  <2>1. owner[e] \in Consumers /\ UNCHANGED ledger
    BY <1>4 DEF Stall, TypeOK, effectVars
  <2>2. Acked'
    BY <1>4, <2>1 DEF Stall, Acked, TypeOK, Free
  <2>3. \A d \in Events : job[d] # "none" => job'[d] # "none"
    BY <1>4 DEF Stall, TypeOK
  <2> QED
    BY <2>1, <2>2, <2>3
<1>5. CASE UNCHANGED vars
  BY <1>5 DEF vars, queueVars, effectVars, Acked
<1> QED
  BY <1>1, <1>2, <1>3, <1>4, <1>5 DEF Next, Acked

\* What is published or marked after a step was so before, or is the row shipped.
LEMMA MarksGrow ==
    ASSUME TypeOK, [Next]_vars, NEW e \in Events,
           outbox'[e] = "published" \/ \E r \in Relays : e \in marked'[r]
    PROVE  \/ outbox[e] = "published" \/ \E r \in Relays : e \in marked[r]
           \/ job'[e] # "none"
<1>1. ASSUME NEW d \in Events, Stage(d)
      PROVE  outbox[e] = "published" \/ \E r \in Relays : e \in marked[r]
  BY <1>1 DEF Stage, TypeOK, relayVars
<1>2. CASE UNCHANGED <<outbox, marked>>
  BY <1>2
<1>3. ASSUME NEW d \in Events, Stall(d) PROVE UNCHANGED <<outbox, marked>>
  BY <1>3 DEF Stall, relayVars
<1>4. ASSUME NEW c \in Consumers, Consume(c) \/ Throw(c)
      PROVE  UNCHANGED <<outbox, marked>>
  BY <1>4 DEF Consume, Take, React, Ack, Throw, relayVars
<1>5. ASSUME NEW r \in Relays, ClaimBatch(r) PROVE UNCHANGED <<outbox, marked>>
  BY <1>5 DEF ClaimBatch
<1>6. ASSUME NEW r \in Relays, Ship(r)
      PROVE  \/ outbox[e] = "published" \/ \E s \in Relays : e \in marked[s]
             \/ job'[e] # "none"
  <2> DEFINE d == Min(batch[r])
  <2>1. d \in Events
    BY <1>6, ShipsItsOwn DEF Ship
  <2>2. /\ job' = IF job[d] = "none" THEN [job EXCEPT ![d] = "waiting"] ELSE job
        /\ marked' = [marked EXCEPT ![r] = @ \cup {d}]
        /\ UNCHANGED outbox
    BY <1>6 DEF Ship
  <2> HIDE DEF d
  <2>3. job'[d] # "none"
    BY <2>1, <2>2 DEF TypeOK
  <2>4. CASE e = d
    BY <2>3, <2>4
  <2>5. CASE e # d
    BY <2>2, <2>5 DEF TypeOK
  <2> QED
    BY <2>4, <2>5
<1>7. ASSUME NEW r \in Relays, Commit(r)
      PROVE  outbox[e] = "published" \/ \E s \in Relays : e \in marked[s]
  BY <1>7 DEF Commit, TypeOK
<1>8. ASSUME NEW r \in Relays, Rollback(r)
      PROVE  outbox[e] = "published" \/ \E s \in Relays : e \in marked[s]
  BY <1>8 DEF Rollback, TypeOK
<1>9. CASE UNCHANGED vars
  BY <1>2, <1>9 DEF vars, relayVars
<1> QED
  BY <1>1, <1>2, <1>3, <1>4, <1>5, <1>6, <1>7, <1>8, <1>9 DEF Next, Relay

\* An event is not marked as published before the queue has it, wherever relays
\* and consumers die.
THEOREM PublishedHasJob == Spec => []PublishedIsCarried
<1>1. Init => Acked /\ PublishedIsCarried
  BY DEF Init, Acked, PublishedIsCarried, Free
<1>2. TypeOK /\ Acked /\ PublishedIsCarried /\ [Next]_vars
         => Acked' /\ PublishedIsCarried'
  <2> SUFFICES ASSUME TypeOK, Acked, PublishedIsCarried, [Next]_vars
               PROVE  Acked' /\ PublishedIsCarried'
    OBVIOUS
  <2>1. ASSUME NEW e \in Events,
               outbox'[e] = "published" \/ \E r \in Relays : e \in marked'[r]
        PROVE  e \in ledger' \/ job'[e] # "none"
    <3>1. CASE outbox[e] = "published" \/ \E r \in Relays : e \in marked[r]
      <4>1. e \in ledger \/ job[e] # "none"
        BY <3>1 DEF PublishedIsCarried
      <4> QED
        BY <4>1, QueueKeeps
    <3> QED
      BY <2>1, <3>1, MarksGrow
  <2>2. PublishedIsCarried'
    BY <2>1 DEF PublishedIsCarried
  <2> QED
    BY <2>2, QueueKeeps
<1> QED
  BY <1>1, <1>2, TypeCorrect, PTL DEF Spec
-----------------------------------------------------------------------------
(***************************************************************************)
(* The promise: at most one effect, and none without the write.            *)
(***************************************************************************)
Written == {e \in Events : outbox[e] # "absent"}
\* Whatever of an event is outside the outbox, its row is in it.
Sourced ==
    /\ ledger \subseteq Written
    /\ \A e \in Events : job[e] # "none" => e \in Written
    /\ \A c \in Consumers : slot[c] # Free => slot[c].event \in Written
\* The ledger counts the effects.
Counted == \A e \in Events : effects[e] = IF e \in ledger THEN 1 ELSE 0

LEMMA PromiseInitially == Init => Promise!PromiseInit /\ Sourced /\ Counted
BY DEF Init, Promise!PromiseInit, Sourced, Counted, Written, Free

\* What is written stays written.
LEMMA WrittenGrows ==
    ASSUME TypeOK, RelaysApart, [Next]_vars
    PROVE  \/ Written' = Written
           \/ \E e \in Events : /\ e \notin Written /\ Written' = Written \cup {e}
                                /\ UNCHANGED <<queueVars, slot, effectVars>>
<1>1. ASSUME NEW e \in Events, Stage(e)
      PROVE  /\ e \notin Written /\ Written' = Written \cup {e}
             /\ UNCHANGED <<queueVars, slot, effectVars>>
  BY <1>1 DEF Stage, Written, TypeOK
<1>2. ASSUME UNCHANGED outbox PROVE Written' = Written
  BY <1>2 DEF Written
<1>3. ASSUME NEW r \in Relays, Commit(r) PROVE Written' = Written
  <2>1. marked[r] \subseteq Written
    BY DEF RelaysApart, Unpublished, Written
  <2> QED
    BY <1>3, <2>1 DEF Commit, Written, TypeOK
<1>4. ASSUME \/ \E e \in Events : Stall(e)
             \/ \E r \in Relays : ClaimBatch(r) \/ Ship(r) \/ Rollback(r)
             \/ \E c \in Consumers : Consume(c) \/ Throw(c)
             \/ UNCHANGED vars
      PROVE  UNCHANGED outbox
  BY <1>4 DEF Stall, ClaimBatch, Ship, Rollback, Consume, Take, React, Ack, Throw, vars
<1> QED
  BY <1>1, <1>2, <1>3, <1>4 DEF Next, Relay

\* A job, a slot and a ledger row come from a written event only.
LEMMA StaysSourced ==
    ASSUME TypeOK, RelaysApart, Sourced, [Next]_vars
    PROVE  Sourced'
<1>1. Written \subseteq Written'
  BY WrittenGrows
<1>2. ASSUME UNCHANGED <<job, slot, ledger>> PROVE Sourced'
  BY <1>1, <1>2 DEF Sourced
<1>3. ASSUME NEW r \in Relays, Ship(r) PROVE Sourced'
  <2> DEFINE e == Min(batch[r])
  <2>1. e \in batch[r] /\ e \in Events
    BY <1>3, ShipsItsOwn DEF Ship
  <2>2. e \in Written
    BY <2>1 DEF RelaysApart, Unpublished, Written
  <2>3. job' = IF job[e] = "none" THEN [job EXCEPT ![e] = "waiting"] ELSE job
    BY <1>3 DEF Ship
  <2>4. UNCHANGED <<slot, ledger>>
    BY <1>3 DEF Ship, effectVars
  <2> HIDE DEF e
  <2> QED
    BY <1>1, <2>1, <2>2, <2>3, <2>4 DEF Sourced, TypeOK
<1>4. ASSUME NEW c \in Consumers, Consume(c) \/ Throw(c) PROVE Sourced'
  <2>1. CASE Take(c)
    BY <1>1, <2>1 DEF Take, Sourced, TypeOK, effectVars
  <2>2. CASE React(c)
    <3>1. slot[c] # Free
      BY <2>2 DEF React, Free
    <3>2. slot'[c].event = slot[c].event
          /\ \A d \in Consumers : d # c => slot'[d] = slot[d]
      BY <2>2, <3>1 DEF React, TypeOK
    <3> QED
      BY <1>1, <2>2, <3>1, <3>2 DEF React, Sourced, TypeOK, queueVars
  <2>3. ASSUME NEW s \in {"none", "failed"}, Settle(c, s), slot[c] # Free,
               UNCHANGED ledger
        PROVE  Sourced'
    <3>1. slot[c].event \in Written
      BY <2>3 DEF Sourced
    <3> QED
      BY <1>1, <2>3, <3>1 DEF Settle, Sourced, TypeOK
  <2>4. CASE Ack(c)
    BY <2>3, <2>4 DEF Ack, Free, effectVars
  <2>5. CASE Throw(c)
    BY <2>3, <2>5 DEF Throw, Free, effectVars
  <2> QED
    BY <1>4, <2>1, <2>2, <2>4, <2>5 DEF Consume
<1>5. ASSUME NEW e \in Events, Stall(e) PROVE Sourced'
  <2>1. owner[e] \in Consumers /\ e \in Written
    BY <1>5 DEF Stall, TypeOK, Sourced
  <2> QED
    BY <1>1, <1>5, <2>1 DEF Stall, Sourced, TypeOK, effectVars
<1>6. ASSUME \/ \E e \in Events : Stage(e)
             \/ \E r \in Relays : ClaimBatch(r) \/ Commit(r) \/ Rollback(r)
             \/ UNCHANGED vars
      PROVE  UNCHANGED <<job, slot, ledger>>
  BY <1>6 DEF Stage, ClaimBatch, Commit, Rollback, vars, queueVars, effectVars
<1> QED
  BY <1>2, <1>3, <1>4, <1>5, <1>6 DEF Next, Relay

\* The effect of a step: none, or the first of an event that is written.
LEMMA EffectsOnce ==
    ASSUME TypeOK, Sourced, Counted, [Next]_vars
    PROVE  /\ Counted'
           /\ \/ UNCHANGED effects
              \/ /\ UNCHANGED outbox
                 /\ \E e \in Written : /\ effects[e] = 0
                                       /\ effects' = [effects EXCEPT ![e] = 1]
<1>1. CASE UNCHANGED effectVars
  BY <1>1 DEF effectVars, Counted
<1>2. ASSUME NEW c \in Consumers, React(c)
      PROVE  /\ Counted'
             /\ \/ UNCHANGED effects
                \/ /\ UNCHANGED outbox
                   /\ \E e \in Written : /\ effects[e] = 0
                                         /\ effects' = [effects EXCEPT ![e] = 1]
  <2> DEFINE e == slot[c].event
  <2>1. slot[c] # Free /\ e \in Events /\ e \in Written
    BY <1>2 DEF React, TypeOK, Sourced, Free
  <2>2. /\ ledger' = ledger \cup {e} /\ UNCHANGED outbox
        /\ effects' = IF e \in ledger THEN effects ELSE [effects EXCEPT ![e] = @ + 1]
    BY <1>2 DEF React
  <2> HIDE DEF e
  <2>3. CASE e \in ledger
    BY <2>2, <2>3 DEF Counted
  <2>4. CASE e \notin ledger
    <3>1. effects[e] = 0
      BY <2>1, <2>4 DEF Counted
    <3>2. effects' = [effects EXCEPT ![e] = 1]
      BY <2>2, <2>4, <3>1
    <3>3. Counted'
      BY <2>1, <2>2, <3>2 DEF Counted, TypeOK
    <3> QED
      BY <2>1, <2>2, <3>1, <3>2, <3>3
  <2> QED
    BY <2>3, <2>4
<1>3. ASSUME \/ \E e \in Events : Stage(e) \/ Stall(e)
             \/ \E r \in Relays : Relay(r) \/ Rollback(r)
             \/ \E c \in Consumers : Take(c) \/ Ack(c) \/ Throw(c)
             \/ UNCHANGED vars
      PROVE  UNCHANGED effectVars
  BY <1>3 DEF Stage, Stall, Relay, ClaimBatch, Ship, Commit, Rollback, Take, Ack, Throw,
              vars, effectVars
<1> QED
  BY <1>1, <1>2, <1>3 DEF Next, Consume

\* "Exactly-once effect", its safety half, for any number of events, relays,
\* slots and faults: the bus implements EventPromise.
THEOREM BusKeepsPromise == Spec => KeepsPromise
<1>1. TypeOK /\ RelaysApart /\ Sourced /\ Counted /\ [Next]_vars
         => /\ Sourced' /\ Counted'
            /\ [Promise!PromiseNext]_(Promise!promiseVars)
  <2> SUFFICES ASSUME TypeOK, RelaysApart, Sourced, Counted, [Next]_vars
               PROVE  /\ Sourced' /\ Counted'
                      /\ [Promise!PromiseNext]_(Promise!promiseVars)
    OBVIOUS
  <2> DEFINE Kept == [Promise!PromiseNext]_(Promise!promiseVars)
  <2>1. ASSUME NEW e \in Events, e \notin Written, Written' = Written \cup {e},
               UNCHANGED effectVars
        PROVE  Kept
    BY <2>1 DEF Promise!PromiseNext, Promise!Write, Written, effectVars
  <2>2. ASSUME Written' = Written PROVE Kept
    <3>1. ASSUME UNCHANGED effects PROVE Kept
      BY <2>2, <3>1 DEF Promise!promiseVars, Written
    <3>2. ASSUME NEW e \in Written, effects[e] = 0,
                 effects' = [effects EXCEPT ![e] = 1]
          PROVE  Kept
      BY <2>2, <3>2 DEF Promise!PromiseNext, Promise!Handle, Written
    <3> QED
      BY <3>1, <3>2, EffectsOnce
  <2>3. Kept
    BY <2>1, <2>2, WrittenGrows
  <2> QED
    BY <2>3, StaysSourced, EffectsOnce
<1> QED
  BY <1>1, PromiseInitially, TypeCorrect, RowsInOneHand, PTL
     DEF Spec, KeepsPromise, Promise!PromiseSpec
=============================================================================
