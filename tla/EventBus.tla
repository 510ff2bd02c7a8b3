------------------------------ MODULE EventBus ------------------------------
(***************************************************************************)
(* The outbox and its relays (bus/outbox-relay.ts), the BullMQ queue they  *)
(* feed, and the idempotent consumer (bus/event-consumer.ts), for one      *)
(* tenant.  A relay works inside one database transaction, but what it     *)
(* adds to the queue is seen at once: a consumer may handle an event whose *)
(* relay then rolls back.  Relays and consumers may die at any step.       *)
(***************************************************************************)
EXTENDS Naturals, FiniteSets, FiniteSetsExt

CONSTANTS
    Events,         \* numbered in the order of their created_at
    Relays,         \* processes that drain the outbox
    Consumers,      \* job slots of the consumer processes
    Batch,          \* RELAY_BATCH
    Nobody,         \* stands for an absent event, or consumer
    MaxRollbacks,   \* bound: relay transactions that do not commit
    MaxThrows,      \* bound: consumer transactions that fail
    MaxStalls       \* bound: jobs whose lock lapses

BusAssumption ==
    /\ Events \subseteq Nat /\ IsFiniteSet(Events)
    /\ Batch \in Nat \ {0}
    /\ Nobody \notin Events \cup Consumers
    /\ {MaxRollbacks, MaxThrows, MaxStalls} \subseteq Nat
ASSUME BusAssumption

VARIABLES
    outbox,     \* outbox_event: absent, unpublished or published
    batch,      \* batch[r]: rows r has locked and not shipped yet
    marked,     \* marked[r]: rows r has shipped and marked, not committed
    job,        \* the BullMQ job with the event's id
    owner,      \* owner[e]: the slot whose lock the active job carries
    stalls,     \* stalls[e]: times the job was taken back from a slot
    slot,       \* slot[c]: the event c works on, and how far it got
    ledger,     \* event_consumption
    effects,    \* effects[e]: times the event had its effect
    faults      \* rollbacks, throws and stalls so far

relayVars == <<batch, marked>>
queueVars == <<job, owner, stalls>>
effectVars == <<ledger, effects>>
vars == <<outbox, relayVars, queueVars, slot, effectVars, faults>>

Free == [event |-> Nobody, phase |-> "free"]
\* BullMQ's maxStalledCount, left at its default.
StallLimit == 1

Init ==
    /\ outbox = [e \in Events |-> "absent"]
    /\ batch = [r \in Relays |-> {}]
    /\ marked = [r \in Relays |-> {}]
    /\ job = [e \in Events |-> "none"]
    /\ owner = [e \in Events |-> Nobody]
    /\ stalls = [e \in Events |-> 0]
    /\ slot = [c \in Consumers |-> Free]
    /\ ledger = {}
    /\ effects = [e \in Events |-> 0]
    /\ faults = [rollbacks |-> 0, throws |-> 0, stalls |-> 0]

Locked == UNION {batch[r] \cup marked[r] : r \in Relays}
Unpublished == {e \in Events : outbox[e] = "unpublished"}

\* A domain transaction commits its write and the event it staged.
Stage(e) ==
    /\ outbox[e] = "absent"
    /\ outbox' = [outbox EXCEPT ![e] = "unpublished"]
    /\ UNCHANGED <<relayVars, queueVars, slot, effectVars, faults>>

\* The n lowest numbers of S: ORDER BY created_at LIMIT n.
Oldest(S, n) == {e \in S : Cardinality({d \in S : d < e}) < n}

\* Mutant: the rows are read without FOR UPDATE SKIP LOCKED.
ClaimBatchUnlocked(r) ==
    /\ batch[r] \cup marked[r] = {} /\ Unpublished # {}
    /\ batch' = [batch EXCEPT ![r] = Oldest(Unpublished, Batch)]
    /\ UNCHANGED <<outbox, marked, queueVars, slot, effectVars, faults>>

ClaimBatch(r) ==
    /\ batch[r] \cup marked[r] = {} /\ Unpublished \ Locked # {}
    /\ batch' = [batch EXCEPT ![r] = Oldest(Unpublished \ Locked, Batch)]
    /\ UNCHANGED <<outbox, marked, queueVars, slot, effectVars, faults>>

\* Mutant: a refusal of the queue is swallowed, the row is marked all the same.
ShipQuietly(r) ==
    /\ batch[r] # {}
    /\ LET e == Min(batch[r])
       IN /\ \/ job[e] = "none" /\ job' = [job EXCEPT ![e] = "waiting"]
             \/ UNCHANGED job
          /\ stalls' = IF job[e] = "none" THEN [stalls EXCEPT ![e] = 0] ELSE stalls
          /\ batch' = [batch EXCEPT ![r] = @ \ {e}]
          /\ marked' = [marked EXCEPT ![r] = @ \cup {e}]
    /\ UNCHANGED <<outbox, owner, slot, effectVars, faults>>

\* queue.add with the event's id as job id: a job that is still there, failed
\* ones included, is left as it is.  Then published_at, in the transaction.
Ship(r) ==
    /\ batch[r] # {}
    /\ LET e == Min(batch[r])
       IN /\ job' = IF job[e] = "none" THEN [job EXCEPT ![e] = "waiting"] ELSE job
          /\ stalls' = IF job[e] = "none" THEN [stalls EXCEPT ![e] = 0] ELSE stalls
          /\ batch' = [batch EXCEPT ![r] = @ \ {e}]
          /\ marked' = [marked EXCEPT ![r] = @ \cup {e}]
    /\ UNCHANGED <<outbox, owner, slot, effectVars, faults>>

Commit(r) ==
    /\ batch[r] = {} /\ marked[r] # {}
    /\ outbox' = [e \in Events |-> IF e \in marked[r] THEN "published" ELSE outbox[e]]
    /\ marked' = [marked EXCEPT ![r] = {}]
    /\ UNCHANGED <<batch, queueVars, slot, effectVars, faults>>

\* The relay dies, the queue refuses, or the database does: the locks and the
\* marks are gone, what was added to the queue is not.
Rollback(r) ==
    /\ batch[r] \cup marked[r] # {}
    /\ faults.rollbacks < MaxRollbacks
    /\ faults' = [faults EXCEPT !.rollbacks = @ + 1]
    /\ batch' = [batch EXCEPT ![r] = {}]
    /\ marked' = [marked EXCEPT ![r] = {}]
    /\ UNCHANGED <<outbox, queueVars, slot, effectVars>>

Take(c) ==
    /\ slot[c] = Free
    /\ \E e \in Events :
          /\ job[e] = "waiting"
          /\ job' = [job EXCEPT ![e] = "active"]
          /\ owner' = [owner EXCEPT ![e] = c]
          /\ slot' = [slot EXCEPT ![c] = [event |-> e, phase |-> "react"]]
    /\ UNCHANGED <<outbox, relayVars, stalls, effectVars, faults>>

\* Mutant: the ledger has no unique key.
ReactAgain(c) ==
    /\ slot[c].phase = "react"
    /\ LET e == slot[c].event
       IN /\ ledger' = ledger \cup {e}
          /\ effects' = [effects EXCEPT ![e] = @ + 1]
    /\ slot' = [slot EXCEPT ![c].phase = "ack"]
    /\ UNCHANGED <<outbox, relayVars, queueVars, faults>>

\* The consumer's transaction: the effect is the ledger row that was not there.
React(c) ==
    /\ slot[c].phase = "react"
    /\ LET e == slot[c].event
       IN /\ ledger' = ledger \cup {e}
          /\ effects' = IF e \in ledger THEN effects ELSE [effects EXCEPT ![e] = @ + 1]
    /\ slot' = [slot EXCEPT ![c].phase = "ack"]
    /\ UNCHANGED <<outbox, relayVars, queueVars, faults>>

\* BullMQ settles a job only for the slot whose lock it carries.
Settle(c, state) ==
    LET e == slot[c].event
    IN /\ slot' = [slot EXCEPT ![c] = Free]
       /\ IF job[e] = "active" /\ owner[e] = c
          THEN /\ job' = [job EXCEPT ![e] = state]
               /\ owner' = [owner EXCEPT ![e] = Nobody]
          ELSE UNCHANGED <<job, owner>>

\* The transaction fails: no attempts are configured, so the job is failed.
Throw(c) ==
    /\ slot[c].phase = "react"
    /\ faults.throws < MaxThrows
    /\ faults' = [faults EXCEPT !.throws = @ + 1]
    /\ Settle(c, "failed")
    /\ UNCHANGED <<outbox, relayVars, stalls, effectVars>>

\* removeOnComplete: a completed job leaves nothing, and its id may come again.
Ack(c) ==
    /\ slot[c].phase = "ack"
    /\ Settle(c, "none")
    /\ UNCHANGED <<outbox, relayVars, stalls, effectVars, faults>>

\* The lock of an active job lapses: its process died, or cannot renew it and
\* works on without it.  The job waits again, or fails at the second time.
StallCount == faults.stalls < MaxStalls /\ faults' = [faults EXCEPT !.stalls = @ + 1]

Stall(e) ==
    /\ job[e] = "active"
    /\ StallCount
    /\ IF stalls[e] < StallLimit
       THEN /\ stalls' = [stalls EXCEPT ![e] = @ + 1]
            /\ job' = [job EXCEPT ![e] = "waiting"]
       ELSE /\ job' = [job EXCEPT ![e] = "failed"]
            /\ UNCHANGED stalls
    /\ owner' = [owner EXCEPT ![e] = Nobody]
    /\ \/ UNCHANGED slot                            \* it works on without the lock
       \/ slot' = [slot EXCEPT ![owner[e]] = Free]  \* it is dead
    /\ UNCHANGED <<outbox, relayVars, effectVars>>

Relay(r) == ClaimBatch(r) \/ Ship(r) \/ Commit(r)
Consume(c) == Take(c) \/ React(c) \/ Ack(c)

Next ==
    \/ \E e \in Events : Stage(e) \/ Stall(e)
    \/ \E r \in Relays : Relay(r) \/ Rollback(r)
    \/ \E c \in Consumers : Consume(c) \/ Throw(c)

Spec == Init /\ [][Next]_vars

\* A relay's timer ticks for ever, and a consumer with a job goes on.
FairSpec ==
    /\ Spec
    /\ \A r \in Relays : WF_vars(Relay(r))
    /\ \A c \in Consumers : WF_vars(Consume(c))

(***************************************************************************)
(* Properties.                                                             *)
(***************************************************************************)
\* Type invariant; in particular a job carries a lock as long as it is active, and
\* is not taken back more often than BullMQ allows.
TypeOK ==
    /\ outbox \in [Events -> {"absent", "unpublished", "published"}]
    /\ batch \in [Relays -> SUBSET Events] /\ marked \in [Relays -> SUBSET Events]
    /\ job \in [Events -> {"none", "waiting", "active", "failed"}]
    /\ owner \in [Events -> Consumers \cup {Nobody}]
    /\ \A e \in Events : owner[e] # Nobody <=> job[e] = "active"
    /\ stalls \in [Events -> 0..StallLimit]
    /\ slot \in [Consumers -> {Free} \cup [event : Events, phase : {"react", "ack"}]]
    /\ ledger \subseteq Events
    /\ effects \in [Events -> Nat]
    /\ faults \in [rollbacks : 0..MaxRollbacks, throws : 0..MaxThrows,
                   stalls : 0..MaxStalls]

\* "So parallel relays never grab the same note": no row is in the hands of two
\* relays, and none that is already published is shipped again.
RelaysApart ==
    /\ \A r, s \in Relays : r # s => (batch[r] \cup marked[r]) \cap (batch[s] \cup marked[s]) = {}
    /\ \A r \in Relays : batch[r] \cup marked[r] \subseteq Unpublished

\* An event is not marked as published before the queue has it: wherever relays
\* and consumers die, a published event was consumed or has its job.
PublishedIsCarried ==
    \A e \in Events :
        outbox[e] = "published" \/ (\E r \in Relays : e \in marked[r]) =>
            e \in ledger \/ job[e] # "none"

\* "Exactly-once effect", its safety half: however often an event is delivered,
\* by relays that repeat it and slots that lost their lock, it has its effect at
\* most once, and only if its write has committed.
Promise == INSTANCE EventPromise WITH
    written <- {e \in Events : outbox[e] # "absent"}, handled <- effects
KeepsPromise == Promise!PromiseSpec

\* Its other half: the event of a committed write has its effect, whichever relay
\* transactions are lost, unless its own job is in the failed set, which takes a
\* failed consumer transaction or more stalls than BullMQ allows.
EachHandled ==
    \A e \in Events : outbox[e] # "absent" ~>
        \/ effects[e] > 0
        \/ job[e] = "failed" /\ (faults.throws > 0 \/ faults.stalls > StallLimit)

\* "At-least-once here + idempotent consumers = exactly-once EFFECT": a published
\* event had its effect, or something will still deliver it.
NoneStranded ==
    \A e \in Events : outbox[e] = "published" =>
        e \in ledger \/ job[e] \in {"waiting", "active"}
=============================================================================
