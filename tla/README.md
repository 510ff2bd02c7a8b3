# Verification of the XELOR platform

XELOR is a multi-tenant ERP for manufacturers with an "Agent OS" on top of it:
missions that read the ERP, ask a person, and then act. The code is TypeScript
(NestJS replicas over PostgreSQL, a BullMQ queue, a React front end, an edge
runtime). This directory holds TLA+ models of its concurrent core and of the
business flows that run on it, the TLC configurations that check them on small
instances, and proofs, checked by TLAPS, that the most important properties hold
for every instance.

All paths below are relative to `src/platform/`; `PROJECT.json` maps every
definition of the models to the lines it stands for.

## 1. The system

### 1.1 Parts and state

| Part | Code | State it keeps | What makes it correct |
|---|---|---|---|
| Mission execution | `apps/api/src/agent-os/agent-graph.engine.ts`, `agent-run.repository.ts`, `agent-recovery.service.ts`, `agent-action.service.ts`, `agent-transition-policy.ts` | `agent_run`, `agent_node_run` (status, attempt, execution token, lease), `agent_approval`, `agent_step_gate`, `agent_action_dispatch`; per replica the set `activeRuns` and the rows it last read | an action only under a gate a person approved; one owner per running node; results, decisions and ends are final; budget and order of the graph; an open mission goes on |
| Mission graph | `packages/platform/src/agent-os/graph.ts`, `types.ts` | none (pure) | acyclic, actions behind approvals, readiness and skipping |
| Human control | `agent-os.service.ts`, `agent-control.service.ts`, `modules/aiops/registry.service.ts` | autonomy mode, kill switch | what a person stops stays stopped; what a person must permit does not start before |
| Idempotency ledger | `apps/api/src/common/idempotency.ts` | `idempotency_key` | work at most once per key; a replay gets the answer of that work |
| Event bus | `apps/api/src/bus/*`, `worker.ts`, `serverless-worker.controller.ts` | `outbox_event`, the queue, `event_consumption` | a committed write's event has its effect, once |
| Inventory | `modules/inventory/inventory.service.ts` | `stock_balance`, `stock_ledger`, advisory and row locks | balances never negative and equal to the ledger; entries all or nothing; a plan stands |
| Audit chain | `common/audit-log.service.ts`, `packages/platform/src/audit/hash-chain.ts` | `audit_log` | one chain without gaps; tampering is found and named |
| Mission fulfilment | `fulfilment/mission.service.ts` | status and autonomy tier of an order's mission, its step rows, plan versions, approvals, actions, the keys of the documents it raises | a document is raised once; money is committed under an authority that covers it; verified and completed mean that the documents are there |
| Factory Connect, edge | `modules/integration/factory-connect.service.ts`, `apps/edge/` | commands, leases, telemetry | no machine command without approval, each at most once |
| Integration | `modules/integration/message.service.ts`, `pipeline.service.ts` | messages, retries, dead letters | every message delivered, dead or retried, never two of them |
| Documents | `common/document-edit.service.ts`, `numbering.service.ts` | revisions, series | gapless numbers; no lost edit |
| Sales | `modules/sales/sales.service.ts` | orders with their credit verdict, lines with delivered quantities | what the order says was delivered has left the shelf; the status is true of the goods; the credit gate holds |
| Purchase, production | `modules/purchase`, `modules/production` | orders and their quantities | quantities billed and produced stay within what was ordered; stock goes through Inventory |
| Planning | `modules/planning` | demand, planned orders | requirements covered, lot sizes respected (pure); a planned order is released once |
| Accounts | `modules/accounts/accounts.service.ts` | vouchers, open items, receipts and their allocation | a settled invoice was paid; balanced vouchers |
| Expenditure, payroll | `modules/expenditure`, `modules/hrm` | budgets, runs | one posting per run; budgets not overdrawn |
| Data import | `modules/dataimport`, `packages/platform/src/dataimport/group.ts` | a batch per file, its rows and their verdicts, a key per row | a row says imported only of a document that exists; no row is in two documents; an interrupted import resumes |
| Quality, maintenance, supplier network, portal, workflow, administration, master data | `modules/*` | one table each, mostly | mostly one-statement updates |
| AI gateway, connectivity, decisions | `ai/`, `agent-os/decision-intelligence.service.ts` | budgets, evaluations | computation that missions read; a refusal ends a mission |
| Schema, web, deployment | `packages/db`, `apps/web`, `infra` | - | constraints and triggers are modelled where a module depends on them |

### 1.2 How they interact

* A route handler wraps its work in `runIdempotent`; the work is usually one
  `withTenant` transaction (READ COMMITTED, row-level security by tenant).
* That transaction writes domain rows, appends to the audit chain under the
  tenant's advisory lock, and stages events in the outbox. Inventory is called
  inside the transactions of sales, purchase and production (`postInTx`).
* Relays (the worker process, and a drain endpoint for serverless deployments)
  move the outbox to BullMQ; consumers record what they consumed in the
  transaction of their effect.
* Missions read the ERP through capabilities and act through
  `AgentActionService`, which checks the run, the lease and the approval in the
  transaction that records the dispatch. Replicas are woken by requests and by
  the sweep timer of `AgentRecoveryService`; they coordinate through the database
  alone.

### 1.3 What is hard about it

* Replicas act on rows they read several transactions ago; `repository.get` reads
  run and nodes in two statements of a READ COMMITTED transaction, so the two may
  be of different times.
* People decide, cancel, change the mode and pull the kill switch between any two
  steps of a replica; deadlines pass; leases lapse under attempts that are only slow.
* A process may die between two transactions; a commit may be lost on its way back.
* The queue is not transactional with the database.
* Postings of stock take several locks one after the other, in the order of their lines.
* A fulfilment mission is advanced by whoever calls `advance`: it reads where the
  mission stands in one transaction and acts in others, and people change the
  terms, the tier and the plan in between.
* Sales and accounts read order, lines and open items statement by statement and
  lock none of them; only the lock of the audit chain orders their commits.
* An import has no lock either: two passes over one file, with different verdicts on
  its rows, post, record and close side by side, and a request outlives the pass
  that sent it.

`PROJECT.json` lists these hazards one by one with their lines, and the properties
that would catch each going wrong.

## 2. Modules

```
AgentGraph --> AgentRun --> AgentRunProofs, MCAgentRun
                  |
                  \-- implements --> MissionGate
Idempotency --> IdempotencyProofs, MCIdempotency   -- implements --> OncePerKey
EventBus    --> BusProofs, MCEventBus              -- implements --> EventPromise
StockLedger --> StockProofs, MCStockLedger
AuditChain  --> ChainProofs, MCAuditChain
Fulfilment  --> FulfilmentProofs, MCFulfilment
OrderToCash --> OrderProofs, MCOrderToCash
DataImport  --> ImportProofs, MCDataImport
```

An `MC` module gives a component its small instance; a `Proofs` module
holds its theorems. `Fulfilment`, `OrderToCash`
and `DataImport` use the idempotency ledger, the chain lock and the stock shelf of
the other modules in the coarsest form that keeps what they need of them.

### 2.1 AgentGraph and AgentRun

`AgentGraph` has the mission graph as constants and the pure functions of
`graph.ts`. Its assumption `GraphAssumption` is what `validateAgentGraph` admits: a
condition may name any node of the graph, and acyclicity, which the code establishes by
Kahn's algorithm, is stated as such. `Meets` stands for what a conditional node expects of
the output of the node it names, as the set of that node's statuses that satisfy it.

`AgentRun` is one mission of one tenant. Its variables are the columns that its
tests read: the run (`runStatus`, `consumedSteps`, `deadline`), the nodes
(`status`, `attempt`, `token`, `lease`), approvals, step gates and dispatched
actions, the tenant's kill switch and mode, and for each replica where its
`execute()` loop is (`pc`), the rows it last read (`view`) and the attempts of its
current wave (`work`).

| Code | Model |
|---|---|
| one `withTenant` transaction | one action; its conditional updates lock what they match |
| `execute()` | `Enter` ... `WaveDone`, one action between two awaits that touch the database |
| `repository.get` | `ReadRun`, then `ReadNodes`: the two statements may see different commits |
| `executeNode`, the attempts of one wave run in parallel | `Attempt(e, n)` for each planned `work[e][n]` |
| a failed or abandoned wave whose other attempts go on | attempts stay in `work` when the loop has left |
| `activeRuns` | a replica has one loop: `pc[e] = "idle"` guards every call |
| `agent_run_lifecycle_guard` (0083) | `LifecycleAllows` |
| execution token (a UUID) | the value of `consumedSteps` after the claim that drew it |
| a deadline | a number: 0 is the first, each granted extension names the next; `elapsed` counts those that have passed |
| a lease until the heartbeat or the mission's deadline | `lease`: the number of the deadline, or `LapsedLease` |
| sweep and `resume` | `Sweep`, `Resume`; the resume an approval owes is `ResumeOwed` |
| kill switch | `EngageKillSwitch` (the commit), `HaltActiveRuns` (what follows it), `ReleaseKillSwitch` |

Left out or merged: checkpoints, audit rows and events a transaction appends (they
guard nothing); the content of evidence and actions; the listing part of
`haltActiveRuns`, since there is one mission; the branch of recovery for rows
without a lease (no writer leaves one any more); a governance refusal is a choice
(`MayRefuse`). Row locks are not modelled: where two transactions could deadlock
PostgreSQL aborts one, which is a failed attempt or a missed halt, both in the model.

`MissionGate` is the abstract specification: gates are asked, granted or refused
once; an action happens once, under a granted gate above it, while the mission is
open; a refusal closes the mission in the same step; closed is final.

### 2.2 Idempotency

Each of the transactions of `runIdempotent` is an action of a request: `Look`,
`Claim`, `LookAgain`, `Work`, `Abandon`, `Record`, with `Crash` anywhere and, for
each transaction, the case that it fails with or without having committed. `Work`
is the caller's: it lands and returns, throws and leaves nothing, or (for the
requests in `Slippery`) lands and throws, as work does when the answer to its
COMMIT is lost. `ReleaseKey` is the operator procedure that the comment at
`idempotency.ts:63` describes for keys left pending; `OncePerKey` is what callers
are promised.

### 2.3 EventBus

One tenant's outbox, any number of relays and consumer slots. A relay's
transaction is four steps, because what it adds to the queue is visible at once:
`ClaimBatch` (FOR UPDATE SKIP LOCKED, oldest first), `Ship` (one event: `queue.add`,
then the mark), `Commit`, `Rollback`. A consumer slot does `Take`, `React` (its one
transaction), `Ack`; it may `Throw`, and its job may `Stall`. BullMQ is external and
modelled from how the code configures it: a job id that exists is not added again,
completed jobs are removed, failed ones kept, no `attempts`, a lapsed lock returns a
job once and fails it the second time. Not modelled: the sweep over tenants and the
limit of 5000 on kept failed jobs. `EventPromise` is what a staged event is promised.

### 2.4 StockLedger

`postInTx` as concurrent READ COMMITTED transactions: `Resolve` (a line at a time: the shelf's
advisory lock, then the committed lots in FIFO order), `LockShelf` and `Apply` (a movement at a
time: advisory lock for a withdrawal, then the balance row FOR UPDATE, then the write), `Audit`
(the tenant's chain lock), `Commit`. `moves` are the movements that a posting has planned, a set
of signed quantities by line and row, of which `todo` are not applied yet and `Due` is the next
in the order of the code; `wrote` holds what it has written and not committed. `Crash` and
PostgreSQL's deadlock detector (`BreakDeadlock`) abort. A shelf is an item in a warehouse; lots
are numbered in the order in which FIFO takes them, taken as fixed; quantities are integers
(thousandths in the code). What FIFO takes of a lot (`Taken`) is written in closed form, from
what stands in the older lots, and sums are numbers of units (the cardinality of a set with one
element per unit), so that the proofs need no recursion. Warehouse creation, correction, reads
and valuation are not modelled.

### 2.5 AuditChain

`appendInTx` in concurrent transactions that append any number of rows and commit
or roll back, and `verifyChainDetailed` as an operator. A hash is modelled by what
it was taken over, so that it is injective. `appendEditInTx`, `historyFor` and the
external anchor are not modelled; the AI chain works the same way under its own lock.

### 2.6 Fulfilment

One mission of `mission.service.ts`. `advance()` is `Advance`, the transaction that
finds the next step of the arc and its number (`seq`, the count of rows), followed by
the step's own action: `Observe` for the investigating steps, `Propose` and `Publish`
(scores first, the plan version in a later transaction), `Critique`, `Authorize`,
`Reserve`, `Watch`, `Close`. Buying and work orders are finer, since each document is
an idempotent call of another module: `Gather`, then `Claim`, `PortDone` or
`PortRefused`, `Replay` and `Yield` for each party, then `Record` with its read-back.
Two calls that hold the same `seq` meet in `Clash` and `RecordClash`: the unique index
refuses the second row. `Retry`, `Approve`, `Reject`, `TryAnother`, `SetAutonomy`,
`Upload` (new supplier terms), `ArmFault`, `Disrupt` and `Crash` happen between any
two of these.

Abstractions: an approval that the code deletes is kept as `withdrawn`, so that
properties can speak of it; evidence and scores are a choice among strategies; a
strategy asks for approval at the tiers in `AskAt`; a repeated request with another
fingerprint is the failing branch of `Replay`; an action row goes by a digest of its
parameters, which every attempt works out anew, so a plan has a set of outcomes for each
kind of action, and a failed row may remain beside a later one (`Outcome`); the masters,
stock and dispatch that the mission reads are choices. The digest of a decision is not
modelled, for a plan row never changes. Intake, listing, evidence export and chat are not modelled.

### 2.7 OrderToCash

`createOrder`, `confirmOrder`, `dispatch` with its stock issue and invoice, and `recordReceipt`,
for one customer. A call is one READ COMMITTED transaction, cut where it reads something that
others may change before it writes; a step that appends to the audit chain first gets `chain`,
which it keeps to its commit. `shipped` is what the stock ledger says of a line: it is not a
column that sales reads, and the properties compare the columns with it. Goods are counted in
units worth one each, so a quantity is its value and a sum is a number of units. A request may
name a line several times (`MayAsk`): each entry is held against the same remainder, all of
them leave the shelf, and the last one says what was delivered. Corrections,
quotations, customers, taxes, manual journals and reversals are not modelled.

### 2.8 DataImport

`commit` as any number of passes over one file: `Assess` (the verdict on the rows, of
the master as it is), `FindBatch`, `InsertBatch`, `PrepareBatch`, `ReadPending`, then
`PostGroup` and `RecordOutcome` for each group, `CountRows` and `CloseBatch`. The
requests are processes of their own: duplicate check, claim, work, record, which go
on when the pass that sent them gave up (`GiveUp`). Which rows make one document
is `GroupOf`, as in `group.ts`. A connection that is lost as the work commits or as the
answer is recorded is `Slip`: in the first case the claim is dropped for work that landed,
and `slipped` remembers its rows. A sales order is held to one by `PoNumber`, the customer and
the order number as written, which the grouping compares without case and margins.

Abstractions: the fingerprint of a request is the set of its rows; the lists a row is
looked up in are read at once; claim and lookup in the key ledger are one step (they
are apart in `Idempotency`); the duplicate check finds any record that the row itself made, and
for the rows in `Resembling` may find one of somebody else's. The verdict on
targets that name no other master (`LooksUp`) is fixed. Decoding of workbooks, column
mapping and presentation are not modelled.

## 3. Runs

Run one with `tlc -config <name>.cfg <module>`. Deadlock is checked in the runs of
`AgentRun`; in the others every process may come to its end, so their cfg says
`CHECK_DEADLOCK FALSE`.

| Run | Question | Instance |
|---|---|---|
| Replicas | Can two replicas on one mission, one of which may crash while leases lapse under live attempts, break the budget, the order, the ownership or the results of the graph? | the fork: four nodes, an action that becomes ready although its gate was skipped; two replicas, one crash, budget 5 |
| Control | Step by step, with two replicas, people who approve, reject, cancel, change the mode and pull the kill switch: are decisions and ends final, does no node start that no person let proceed, does a cancelled mission leave nothing to act on, and does the mission keep the promise of `MissionGate`? | the line, each node attempted once; two replicas, one kill or one change of mode, governance may refuse, budget 3 |
| Recovery | Does a pending or running mission always reach a person's decision or an end? | the line; one replica that may crash once, one kill, two deadlines; fair |
| Once | Does at most one of the requests with a key take effect, is everyone told the outcome of that one, and is every claim settled unless something crashed? | four requests: an order, its retry, another body under the same key, and one with its own key whose work may land and throw; two faults; fair |
| Bus | Is a row in one relay's hands only, is a published event always carried, does it have its effect at most once, and in the end once unless a consumer failed? | two events, two relays, two slots; batches of two, two rollbacks, one throw, two stalls; fair |
| Stock | Do the balances equal the ledger and stay non-negative, does a plan stand, is each entry posted in full or not at all, and does each end? | opposite transfers (one of two lines, one of them with a nominated lot), an issue of a nominated lot and a receipt of two lines, on two shelves of two lots at the limit of the stock; one crash; fair |
| Chain | Is there one chain, does every range of it verify, and are an edited, a replaced and a removed row named? | four transactions, one of two rows, any may roll back |
| Fulfilment | When two calls advance one mission while people decide, retry, move the dial or replace the terms, a supplier is delayed and a process dies, is every document raised at most once and not without authority, and is what is called verified or completed really there? | two investigating steps, two strategies (one outside the authority of A3), two vendors, one line to make; two calls, two plans, three of: a second call, a retry, a change, a crash; 2.2 million states |
| Orders | When two clerks create, confirm and dispatch orders and record receipts at the same time, do the lines, the status and the invoices claim no more than what left and what was paid, and does the credit gate hold on figures that are still true? | two orders, three lines, a shelf of four, a limit of three, receipts of one or two, seven calls; 0.9 million states |
| Import | When two people commit the same file at once, requests outlive their pass, processes die and the master changes, is a row that says imported in a document, a row in one document only, and a completed batch complete? | three rows, two of them one order; two passes, three requests, two faults, one change of the master; four targets; 1.9 million states |
| StaleApproval | refutes `AuthorityIsForOnePlan` | one call, no bound but two plans is needed |
| ImportReplay | refutes `HeldIsUnmade` | the file of Import, one fault, no change of the master, and nobody else's records that its rows resemble |

### 3.1 What the passing runs show

* **Replicas.** `StepBudget`: the budget counts exactly the attempts made, though
  replicas claim at once. `DependencyOrder`: although plans are made from stale
  rows, nothing starts before its dependencies ended. `OneOwner`: token and lease
  make an attempt exclusive. `ActionsFollowApproval`: an action has an approved gate above
  it, even where the graph makes it ready without one. `CompletedIsTruthful`:
  a completed mission has no unfinished node, and its succeeded actions are the dispatched
  ones. `ResultsFinal`: a reclaimed attempt's late result changes nothing.
* **Control.** `RejectedNeverActs`, `TerminalRunFinal`, `DecisionsFinal` and
  `KeepsPromise` (the refinement of `MissionGate`) under every race of people
  and two replicas. `NothingStartsUnasked` speaks of tenants that did not change the mode;
  `CancelledIsQuiet` excludes runs that a rejection cancelled, since a rejection leaves
  other branches as they were. `Justified` is the inductive invariant of section 5. Deadlines
  and retried attempts are left to `Recovery` and `Replicas`.
* **Recovery.** `NeverStuckRunning`: the sweep brings the mission on after a crash
  at any step, a halt, or an expired deadline.
* **Once.** `AtMostOnce`; `KeepsPromise` (refinement of `OncePerKey`);
  `KeySettles`: only a fault leaves a key pending for ever.
* **Bus.** `RelaysApart`, `PublishedIsCarried`, `KeepsPromise` (refinement of
  `EventPromise`: the safety half of "exactly-once effect") and `EachHandled`, its
  liveness half, as far as it holds: an event has its effect, or its own job is in the failed
  set, where a consumer's failure or one stall too many has put it.
* **Stock.** `LedgerAddsUp`, `PlanStands` ("concurrent issues cannot both plan
  against the same lot"), `PostedInFull`, `EachEnds` (opposite transfers do
  deadlock in this instance, and end).
* **Chain.** `OneChain`, `WholeIsIntact`, `BreaksAreNamed`.
* **Fulfilment.** `RaisedOnce`: a vendor is sent one order and a line one work order
  per plan, however often a step runs. `VerifiedIsReal`: what an action row says is there.
  `MoneyNeedsAuthority` and `CompletedIsProven` hold for missions whose
  calls come one at a time (and, the first, before a disruption); 4.2 says how they
  fail otherwise.
* **Orders.** `DeliveredHasLeft` and `StatusFollowsGoods`: lost updates of two dispatches, and
  of a request that names a line twice, err on one side only. `SettledIsPaid`: so do those of
  two receipts. `GateHolds`: the gate's arithmetic is right of figures that are still true when
  it commits.
* **Import.** `ImportedIsReal`, `OneDocument`, `CompletedIsReal`: whatever is lost, late or
  repeated, the import does not claim a document that is missing. None is made twice but by
  work that landed and threw, and a sales order not even then.

Every property has a mutant in `PROJECT.json`: a plausible bug put into one
definition, which TLC finds through that property.

### 3.2 Bounds, and why they are enough

`MaxCrashes`, `MaxKills`, `MaxModeChanges`, `MaxElapsed`, `MaxFaults`,
`MaxRollbacks`, `MaxThrows`, `MaxStalls`, `MaxPlans`, `MaxRetries`, `MaxChanges`,
`MaxClicks`, `MaxCalls` and `MaxCommits` bound what the environment does; the code
bounds the rest (attempts, budget, batch, BullMQ's stall limit). The hazards listed
need at most two replicas (one stale, one fresh), one lost lease and one decision; a third
replica adds only another stale reader. The line and the fork are the two shapes that
the shipped graphs are made of: evidence, a gate, actions, and a branch that joins
behind the gate. For the idempotency ledger three requests on a key are needed
(a winner that fails, a loser that looks again, a third that claims meanwhile), and a
second key shows that keys are independent. The bus needs two events for a batch to
be half shipped, and one stall more than BullMQ allows. Stock needs two shelves for
a deadlock and two lots for an allocation to split.

Fulfilment needs two plans, since its hazards are about an answer, a key or a row of the
plan before, and two calls for one to be stale. `ThreeTroubles` keeps the instance
small; a run of one call at a time with three plans and two changes (0.8 million states)
found nothing else. Orders needs two lines for an order to be partly delivered, two orders
for exposure, and a limit that the larger one meets and both exceed; its shelf holds exactly
what is ordered, so that what is shipped twice of one line is missing for another. Import
needs a group of two rows with a third row beside it, and a request more than there are passes,
so that one is always left over.

The replicas, the calls and clerks, and the importers and their requests are symmetric; the runs
that check no liveness and hold large spaces use that. `OneIntervention` keeps the kill switch
and a change of mode apart in `Control`. For the properties that section 5 lists, the proofs
remove all of these bounds.

### 3.3 Fairness

* `AgentRun!FairSpec`: a replica's loop and attempts go on (the event loop of Node
  runs what is ready), the sweep timer of each replica fires again and again
  (`setInterval` in `AgentRecoveryService`), and a lease nobody renews lapses. Nobody
  owes an approval, a resume, a halt or a crash. Recovery has one replica on purpose:
  with two, one may always hold a read that is older than the other's writes; see 4.2.
* `Idempotency!FairSpec`: a request that runs goes on. Operators owe nothing.
* `EventBus!FairSpec`: the relay's timer ticks for ever, and a consumer with a job
  goes on. Rollbacks and stalls are not required, and not prevented.
* `StockLedger!FairSpec`: as long as some transaction can go on one does, and a
  deadlock is detected, as PostgreSQL does after `deadlock_timeout`. This is weaker
  than fairness of each posting.
* `AuditChain`, `Fulfilment`, `OrderToCash` and `DataImport` state no fairness: nothing
  in that code owes a next step. A mission is advanced by whoever asks, an order
  by clerks, an import is resumed by a person.

## 4. Where code and documentation disagree

### 4.1 Shown by a run

* **StaleApproval.** A disruption that reaches a mission while it waits for an approval
  rewinds it to the strategy and leaves the approval pending. Answered later, it marks
  whatever `authorize` row there is then, which may be that of the plan that replaced
  the one the person saw, and moves the mission on to `executing`. `decide` compares
  the digest of the approval with that of the approved plan's own row, which never
  changes. `mission.service.ts:2033`: "An approval is authority over ONE specific
  proposal; if the plan changed while the request sat in someone's inbox, the authority
  granted does not extend to what it became".
* **ImportReplay.** `createItem` and `createVendor` look for duplicates before they ask
  the ledger of keys. When a row is posted again, after a crash or by a second pass, the
  check finds the record that the row itself made; the row is marked held, with the message
  that nothing was created, and stays so. `0096_data_import.sql:121`: "The same row
  committed twice replays the first answer".

### 4.2 Stated in the modules, not run

Each of these definitions is a promise of a comment or document that the model
refutes when it is checked in the instance named here, as an INVARIANT
(`KillPreventsActions` as a PROPERTY). "The pair" is the line with two replicas,
autonomous, and neither crash nor deadline.

| Definition | Scenario | Instance |
|---|---|---|
| `KillPreventsActions` (`docs/01-agent-os/04-managed-services.md:292`: "The kill switch prevents new automated actions") | a replica that passed the governance check before the switch was engaged marks the halted run running afterwards (`markRunRunning`, `agent-run.repository.ts:349`, accepts `halted`); dispatch looks at the run, the lease and the approval, not at the switch | the pair, one kill |
| `ApprovalResumes` (`03-controlled-autonomy.md:81`: "approval resumes the durable graph") | an approval commits while the loop that asked for it still finishes the wave; the resume it owes returns at once, because `activeRuns` holds the run (`agent-os.service.ts:310`), the loop leaves, and the sweep looks for pending and running runs only | the line, one replica |
| `AttemptsBounded` (`types.ts:159`) | a replica plans a node from rows older than another replica's attempt and claims it once more: `startNode` counts attempts and does not compare them with `maxAttempts` | the pair |
| `ClosedHasNoGates` (migration 0067) | `failRun` leaves a pending Proceed gate behind | one replica, step by step, one deadline |
| `ApprovalDecidable` (`agent-recovery.service.ts:21`) | a replica that entered while the run was running marks it running after another has opened an approval: `decideApproval` refuses every answer from then on | the pair |
| `ProceedSurvives` (`control.tsx:287`) | a resume at a Proceed gate moves the run to running; the gate exists, so it is not requested again, and `approveStepGate` requires `waiting_step` | one replica, step by step |
| `Idempotency!AtMostOnce` with `Slippery` a request that shares its key (`idempotency.ts:39`) | its work commits and throws, the claim is dropped, the retry does it again | that of Once |
| `NoneStranded` (`outbox-relay.ts:29`: "exactly-once EFFECT") | jobs are added without `attempts` (`:85`), so one failed consumer transaction moves a job to the failed set for good, while its outbox row is published | two events, one throw |
| `PolicyFindsStock` (`inventory.service.ts:182`) | all lines are resolved before any is applied (`:187`), so two unnamed lines of one item are planned against one lot, and the entry is refused although the lots together suffice | one issue of two unnamed lines and a receipt |
| `MissingRowIsFound` (`hash-chain.ts:6`) | a chain that lacks its first or its last rows verifies | that of Chain |
| `NeverOverDispatched` (`0020_sales.sql:138`: "you can never dispatch more than was ordered") | one request names a line twice, and each entry is held against the same remainder (`sales.service.ts:1351`); or two dispatches of one line read its delivered quantity before either writes it (`:1340`). All of it leaves the shelf, and the line records the last | that of Orders |
| `BatchSpeaksForRows` (`dataimport.service.ts:830`: the wizard and the history "cannot disagree") | of two passes one counts the rows, the other records an outcome and closes, and the first writes its stale count | that of Import |

Reading the code for the models showed more of the kind, which have no definition
because they are about one call or about what the models leave out:

* Missions: `startNode` locks the node and then the run, `haltRun` and `cancelRun` the
  other way round; `haltActiveRuns` commits run by run, so a crash leaves some running;
  a sweep of the relay stops at the first tenant that throws (`outbox-relay.ts:46`).
* Fulfilment: the dial does not change whether the plan at hand asks
  (`setAutonomy` keeps `requiresApproval`); nothing wakes a mission that waits
  (`mission.service.ts:801`), so `close` runs only when another answer happens to
  move it on. A call that entered before new terms arrived writes its row under the number
  it had drawn, and the mission's later rows can clash with it for ever; if it authorizes, the
  replacing plan can be bought unapproved, which is why `MoneyNeedsAuthority` and `CompletedIsProven`
  speak of one call at a time. After a disruption the next plan raises its documents under new keys
  beside those of the old. A crash inside the port leaves its key claimed, and
  every later call yields to a sibling that is gone, though the comment at
  `mission.service.ts:547` calls the state self-healing. A failed action whose parameters have
  changed by the next attempt keeps its row beside the new one, and the close then never finds
  every action verified, though `:3098` says that one logical action keeps one row across
  attempts. A disruption revives
  a closed mission and overwrites the reason that kept a refused strategy out of the next plan.
* Orders: editing an order's lines is always refused, because it deletes rows of a table
  whose DELETE is revoked (`0020_sales.sql:151`; for purchases `0015`). Two
  confirmations can both pass the credit gate, and a late one overwrites the status
  that a dispatch has written. A partly dispatched order counts in full beside its invoice. Two
  receipts can allocate more than one invoice's worth, and two reversals of one voucher both
  pass. Confirmation locks order row and then chain, dispatch the reverse.
* Import: a late refusal overwrites `imported` with `failed`; a mismatch marks as failed rows that a
  document carries; a key that a crash left pending keeps its row accepted for ever.
  Work that landed and threw drops its claim, and a later pass makes the stock entry, or a
  master record that was not checked for duplicates, again.

## 5. Proofs

Checked by `tlapm <module>`. They hold for every graph, file and order book, every set of
replicas, relays, clerks or calls, and every bound; the assumptions are those each
module states (`GraphAssumption`, what `validateAgentGraph` admits; `BoundsAssumption`,
`RequestAssumption`, `BusAssumption`, `StockAssumption`, `MissionAssumption`, `OrderAssumption`,
`ImportAssumption` and their like). They say what the code does of its input: lines and lots are
finite in number, and no step stands twice in the arc (`IsInjective(Observations)`). TLC
evaluates them in the runs. Every invariant and every action property of a passing run is
now a theorem.

| Theorem | Establishes |
|---|---|
| `AgentRunProofs!TypeCorrect`, `JustifiedAlways` | `Spec => []TypeOK`, `Spec => []Justified` |
| `AgentRunProofs!OwnersAreUnique`, `OrderHolds`, `ActionsAreApproved`, `RejectionsHold` | `OneOwner`, `DependencyOrder`, `ActionsFollowApproval`, `RejectedNeverActs` |
| `AgentRunProofs!ResultsAreFinal`, `TerminalRunIsFinal`, `DecisionsAreFinal` | the action properties `ResultsFinal`, `TerminalRunFinal`, `DecisionsFinal` |
| `AgentRunProofs!CancelledStaysQuiet`, `NothingUnasked`, `BudgetCounts` | `CancelledIsQuiet`, `NothingStartsUnasked`, `StepBudget` |
| `AgentRunProofs!CompletionIsTruthful` | under `ConditionsUpstream`, `CompletedIsTruthful` |
| `AgentRunProofs!Refinement` | `Spec => KeepsPromise`: missions implement `MissionGate` |
| `IdempotencyProofs!TypeCorrect` | `Spec => []TypeOK` |
| `IdempotencyProofs!GuardsHold`, `WorkLandsOnce`, `Refinement` | under `SlipsAlone`, `ClaimGuards`, `AtMostOnce`, and that `runIdempotent` implements `OncePerKey` |
| `BusProofs!TypeCorrect`, `RowsInOneHand`, `PublishedHasJob` | types, `RelaysApart`, `PublishedIsCarried` |
| `BusProofs!BusKeepsPromise` | `Spec => KeepsPromise`: the bus implements `EventPromise` |
| `StockProofs!StockTypes`, `LedgerIsComplete`, `PlansHold`, `PostsAreComplete` | types, `LedgerAddsUp`, `PlanStands`, `PostedInFull` |
| `ChainProofs!TypeCorrect`, `ChainIsOne`, `WholeVerifies`, `BreaksFound` | types, `OneChain`, `WholeIsIntact`, `BreaksAreNamed` |
| `FulfilmentProofs!TypeCorrect`, `DocumentsOnce`, `VerifiedStands` | types, `RaisedOnce`, `VerifiedIsReal` |
| `FulfilmentProofs!MoneyIsAuthorised`, `CompletedInFull` | `MoneyNeedsAuthority`, `CompletedIsProven` |
| `OrderProofs!DeliveredLeft`, `StatusIsTrue` | `DeliveredHasLeft`, `StatusFollowsGoods` |
| `OrderProofs!SettledWasPaid`, `GateKeepsLimit` | `SettledIsPaid`, `GateHolds` |
| `OrderProofs!BooksTyped` | types: among them, that the shelf is never overdrawn |
| `ImportProofs!ImportedRowsAreReal`, `CompletedBatchIsReal`, `DocumentsAreOne` | `ImportedIsReal`, `CompletedIsReal`, `OneDocument` |

**Missions.** `ActionsFollowApproval` is not inductive: dispatch acts on a gate the replica
found in an old read. `Justified` adds what a stale read is still good for. Terminal nodes never
leave their status, so what a replica has read as ended is ended (`ViewHolds`); therefore
whatever it plans rests on dependencies that have ended and on a gate that was approved
(`WorkJustified`), and so does every node that left `pending` by its own execution
(`NodesJustified`). Tokens are drawn from the step budget, which only grows, so a new token is
unlike any other (`TokensDrawn`), which makes the owner unique. `RejectedNeverActs` needs that a
node is dispatched only when all its ancestors have ended, and that only a cancelled run has
cancelled nodes (`CancelsTogether`). The proofs go action by action; `NodeSteps`, `WorkSteps`,
`ViewSteps`, `BudgetSteps` and `GateSteps` say once what any step may do to one part of the
state, and the preservation lemmas use only these. The part on control adds what people see: how
a step may change the Proceed gates, and that each step of rows and replicas is a step of
`MissionGate` or none. `CompletedIsTruthful` needs one thing more of the graph: a node that is
conditional on another depends on it (`ConditionsUpstream`). All graphs of
`graph-registry.service.ts` are so, though `validateAgentGraph` asks only that the condition
exists; without it TLC finds a replica that skips, on an old read, an action that another has
dispatched. With it, what a replica saw ended was ended all the way up (`ViewsClosed`), so its
plan to skip or to run is still right when it is carried out (`PlansAgree`).

**Idempotency.** `AtMostOnce` is not inductive either: that a key is free says
nothing about work in flight. `ClaimIsLock` says that whoever works holds the
pending row, alone; `LandedBars` that where work has landed and returned the row is
there and only its recorder holds it. A request in `Slippery` drops its claim although its work
landed; `SlipsAlone` says that no other request has its key. It is the hypothesis
of the theorems, and it is necessary: see 4.2.

**Bus.** A row that one relay holds is skipped by the others until it commits or rolls back, so the
rows of two relays are apart; a row is marked after its job was added, so a
published row has had a job. The promise follows because a consumer records what it
consumed with its effect, whatever the queue does with the job.

**Stock.** A posting has the locks of the rows it wrote, so what it sees in a row is what is
committed there and the movements that it applied (`LedgerIsComplete`). Who withdraws from a
shelf has its lock to the end, so nobody takes from under a plan, and receipts only add
(`PlansHold`). A posting is in full because FIFO takes what was asked: the units of a shelf have
places, lot after lot, and the units taken of the lots stand at the first places, one each, as
many as the line asks for.

**Chain.** `Chained` says that the committed rows followed by those of the transaction that
holds the lock are linked one by one, and that nobody else has appended. From it the verifier's fold
is never evaluated: `WholeVerifies` and `BreaksFound` are about its first bad row, and
a row is good when it is linked to the one before it.

**Fulfilment.** `RaisedOnce` rests on the keys (`Keyed`): a document has been raised only if
its key is claimed or done, and a call inside the port is the only holder of a claimed
key. `VerifiedIsReal` needs more: a call that is about to record has had each party's document
replayed or raised (`AllCovered`), of the version that it read, and plans are only appended
to, so what was covered stays covered (`Proven`).

`MoneyNeedsAuthority` is about calls that come one at a time, and even then a step that
authorised may belong to an earlier plan: new terms can rewind the mission while the step is
under way. The invariant `Orderly` says why nothing is bought then. Steps are numbered by how
many rows there are, so the stale row stands at a number that a later step wants; that step
fails (`Clash`) as long as the row is there, the early steps are never all done (`Stale`),
and buying needs them all.

`CompletedIsProven` allows the disruption, which makes the mission forget that it waits. The
invariant `Honest` counts debts: each request that nobody answered and each row that failed.
The disruption happens once and pays for one, and another stands only while the mission has
stopped for it (`Solvent`). If all steps but the last are done (`Ending`), the mission rests, or
was woken by the last answer and owes nothing but the failure which that answer recorded. So
where a step of documents failed and the rest was done all the same, no answer is left
to wake the mission for its close.

**Orders.** `Goods` says that what a dispatch read is still true in one direction: the delivered
quantity it saw is no more than what has left since, because goods that have left do not come
back. So what it writes, the quantity seen plus what it ships itself, is no more than what has
left, although it may be less than what others recorded. Receipts are the same story with money:
what a receipt saw received is no more than what had been allocated by then. The gate holds
because exposure is counted in units, so that a sum over more lines is a larger set.

**Import.** `Reliable`: whoever is at work on a key holds it alone (`Holds`), so whoever says
created, request or ledger, has a document to show, of the rows its fingerprint names
(`Truthful`), and a row or a count that says so had such an answer (`Counted`). `OneDocument`
has two grounds: orders are kept apart by the customer's PO number (`Unique`), and everything
else is posted row by row, under a key that is taken once its document exists (`Requested`,
`Keyed`), unless the work that made it threw and dropped the claim (`slipped`). The first ground
does not rest on claims, so a sales order is one even then.

**Only model-checked.** The four liveness properties under fairness: `NeverStuckRunning`,
`KeySettles`, `EachHandled`, `EachEnds`. They need ENABLED, which is out of the
prover's reach. So is induction over data, which is why sums are cardinalities of
sets, and the verifier's fold is replaced by its first bad row.
`AgentGraph!Ancestors` is defined as the least closed set, not by recursion, so that
the proofs can use it as it is.

## 6. What is left

In order; each with its abstract specification where it has one worth stating.

1. `Commands`: approval, lease and report of an edge command of Factory Connect.
2. `Messages`: retries, dead letters and replays of integration messages.
3. `Numbering` and document revisions under their locks.
4. Purchase and production beside `OrderToCash`: three-way matching, operations.
5. `Planning`: netting, lot sizing and FIFO allocation as pure functions against
   reference definitions; the life of a planned order.
6. `Posting`: payroll, expenditure, journals and reversals.
7. Starting a mission twice with one key; several missions under one kill switch.

The runs stay one per question: a new component brings one run for all its
properties, and one more only for a disagreement between code and documentation.

## 7. Not modelled, and why

`PROJECT.json` lists every part with its reason. In short: screens, deployment and
read models have no protocol of their own; modules whose operations are single
statements on one table have nothing to interleave; row-level security and the
constraints no model depends on belong to the database; calls to language models
affect missions only as a refusal, which is an input of `AgentRun`; the parts in
section 6 are planned.
