---------------------------- MODULE StockLedger ------------------------------
(***************************************************************************)
(* Posting stock (modules/inventory/inventory.service.ts): postInTx, its   *)
(* resolution of unnamed lots and the movements it applies, as concurrent  *)
(* READ COMMITTED transactions that take the locks of the code in its      *)
(* order.  A shelf is an item in a warehouse, a lot a batch on it; lots    *)
(* are numbered in the order in which FIFO takes them.                     *)
(***************************************************************************)
EXTENDS Integers, Sequences, FiniteSets, FiniteSetsExt

CONSTANTS
    Posts,      \* stock entries, each posted by one transaction
    Lines,      \* Lines[p]: its lines, a sequence of records from, to, lot, qty
    Shelves, Lots,
    Opening,    \* Opening[r]: what the row r of stock_balance holds at first
    Absent,     \* in a line: no shelf, or no nominated lot; elsewhere: nobody
    MaxCrashes  \* bound: postings that die

Rows == Shelves \X Lots

\* The shapes that postInTx admits: at least one line, of a positive quantity,
\* with a source, a target, or two that differ (a negative adjustment is a line
\* with a source).
StockAssumption ==
    /\ Absent \notin Shelves /\ Absent \notin Lots /\ Absent \notin Posts
    /\ IsFiniteSet(Posts)
    /\ IsFiniteSet(Lots) /\ Lots \subseteq Nat
    /\ Opening \in [Rows -> Nat]
    /\ Lines \in [Posts -> Seq([from : Shelves \cup {Absent}, to : Shelves \cup {Absent},
                                lot : Lots \cup {Absent}, qty : Nat \ {0}])]
    /\ \A p \in Posts : Len(Lines[p]) > 0 /\ \A i \in DOMAIN Lines[p] :
          /\ Lines[p][i].from # Lines[p][i].to
          /\ Lines[p][i].from = Absent => Lines[p][i].lot # Absent
    /\ MaxCrashes \in Nat
ASSUME StockAssumption

VARIABLES
    balance,    \* stock_balance, as committed
    ledger,     \* stock_ledger, as committed: the movements of the entries
    pc,         \* where each posting is in postInTx
    line,       \* line[p]: the line of p to resolve
    moves,      \* moves[p]: the signed movements planned for p
    todo,       \* todo[p]: those that are not applied yet
    wrote,      \* wrote[p]: the rows p has updated, not committed
    shelfLock,  \* advisory lock of a shelf
    rowLock,    \* lock of a row of stock_balance
    chainLock,  \* advisory lock of the tenant's audit chain
    outcome,    \* posted, short (INSUFFICIENT_STOCK), dead, or none yet
    crashes

dataVars == <<balance, ledger>>
planVars == <<line, moves, todo, wrote>>
lockVars == <<shelfLock, rowLock, chainLock>>
vars == <<dataVars, pc, planVars, lockVars, outcome, crashes>>

Init ==
    /\ balance = Opening
    /\ ledger = {}
    /\ pc = [p \in Posts |-> "resolve"]
    /\ line = [p \in Posts |-> 1]
    /\ moves = [p \in Posts |-> {}]
    /\ todo = [p \in Posts |-> {}]
    /\ wrote = [p \in Posts |-> <<>>]
    /\ shelfLock = [s \in Shelves |-> Absent]
    /\ rowLock = [r \in Rows |-> Absent]
    /\ chainLock = Absent
    /\ outcome = [p \in Posts |-> "none"]
    /\ crashes = 0

Mine(lock, p) == lock \in {Absent, p}
Step(p, where) == pc' = [pc EXCEPT ![p] = where]

\* What is on shelf s, unit by unit, in the lots of a set.
Stock(s, lots) == UNION {{b} \X (1..balance[<<s, b>>]) : b \in lots}
OnShelf(s) == Cardinality(Stock(s, Lots))
Older(s, b) == Cardinality(Stock(s, {a \in Lots : a < b}))

\* allocateFifoBatches: what is taken of lot b when qty is asked of shelf s.
Taken(s, qty, b) == Min({balance[<<s, b>>], Max({0, qty - Older(s, b)})})

\* What line l takes from, or brings to, lot b: all of it for a nominated lot.
Unnamed(l) == l.from # Absent /\ l.lot = Absent
Share(l, b) ==
    IF Unnamed(l) THEN Taken(l.from, l.qty, b) ELSE IF b = l.lot THEN l.qty ELSE 0

\* The movements of line i of p, lot by lot, out of its source and into its target.
Shared(l) == {b \in Lots : Share(l, b) > 0}
Out(p, i, l) ==
    {[entry |-> p, line |-> i, row |-> <<l.from, b>>, qty |-> -Share(l, b)] : b \in Shared(l)}
In(p, i, l) ==
    {[entry |-> p, line |-> i, row |-> <<l.to, b>>, qty |-> Share(l, b)] : b \in Shared(l)}
MovesOf(p, i, l) ==
    (IF l.from = Absent THEN {} ELSE Out(p, i, l)) \cup
    (IF l.to = Absent THEN {} ELSE In(p, i, l))

\* Mutant: pg_advisory_lock, held by the session when the transaction is over.
ReleaseRows(p) ==
    /\ UNCHANGED shelfLock
    /\ rowLock' = [r \in Rows |-> IF rowLock[r] = p THEN Absent ELSE rowLock[r]]
    /\ chainLock' = IF chainLock = p THEN Absent ELSE chainLock

\* The end of a transaction: its locks are gone, the advisory ones too, since they
\* are pg_advisory_xact_lock.
Release(p) ==
    /\ shelfLock' = [s \in Shelves |-> IF shelfLock[s] = p THEN Absent ELSE shelfLock[s]]
    /\ rowLock' = [r \in Rows |-> IF rowLock[r] = p THEN Absent ELSE rowLock[r]]
    /\ chainLock' = IF chainLock = p THEN Absent ELSE chainLock

Abort(p, why) ==
    /\ Step(p, "done")
    /\ outcome' = [outcome EXCEPT ![p] = why]
    /\ wrote' = [wrote EXCEPT ![p] = <<>>]
    /\ Release(p)
    /\ UNCHANGED <<dataVars, line, moves, todo>>

\* resolveBatches, line by line and before any movement: an unnamed source is
\* locked, and its committed lots are allocated.
Resolve(p) ==
    LET i == line[p]
        l == Lines[p][i]
        planned ==
            /\ moves' = [moves EXCEPT ![p] = @ \cup MovesOf(p, i, l)]
            /\ todo' = [todo EXCEPT ![p] = @ \cup MovesOf(p, i, l)]
            /\ IF i = Len(Lines[p])
               THEN Step(p, "lock") /\ UNCHANGED line
               ELSE UNCHANGED pc /\ line' = [line EXCEPT ![p] = i + 1]
            /\ UNCHANGED <<dataVars, wrote, rowLock, chainLock, outcome>>
    IN /\ pc[p] = "resolve" /\ UNCHANGED crashes
       /\ \/ ~Unnamed(l) /\ planned /\ UNCHANGED shelfLock
          \/ /\ Unnamed(l) /\ Mine(shelfLock[l.from], p) /\ OnShelf(l.from) >= l.qty
             /\ planned /\ shelfLock' = [shelfLock EXCEPT ![l.from] = p]
          \/ /\ Unnamed(l) /\ Mine(shelfLock[l.from], p) /\ OnShelf(l.from) < l.qty
             /\ Abort(p, "short")

\* The movements are applied line by line, lot by lot, out before in.
Before(m, n) ==
    \/ m.line < n.line
    \/ m.line = n.line /\ m.row[2] < n.row[2]
    \/ m.line = n.line /\ m.row[2] = n.row[2] /\ m.qty < 0
Due(p) == {m \in todo[p] : \A n \in todo[p] \ {m} : Before(m, n)}

\* Mutant: only the resolution of unnamed lots locks the shelf.
SkipShelf(p) ==
    /\ pc[p] = "lock"
    /\ Step(p, "move")
    /\ UNCHANGED <<dataVars, planVars, lockVars, outcome, crashes>>

\* applyMovement: every withdrawal locks its shelf.
LockShelf(p) ==
    /\ pc[p] = "lock"
    /\ \E m \in Due(p) :
          \/ m.qty >= 0 /\ UNCHANGED shelfLock
          \/ /\ m.qty < 0 /\ Mine(shelfLock[m.row[1]], p)
             /\ shelfLock' = [shelfLock EXCEPT ![m.row[1]] = p]
    /\ Step(p, "move")
    /\ UNCHANGED <<dataVars, planVars, rowLock, chainLock, outcome, crashes>>

\* What p reads in row r: what it wrote itself, or what is committed.
Seen(p, r) == IF r \in DOMAIN wrote[p] THEN wrote[p][r] ELSE balance[r]

Write(p, m) ==
    /\ wrote' = [wrote EXCEPT ![p] = [r \in DOMAIN wrote[p] \cup {m.row} |->
           IF r = m.row THEN Seen(p, m.row) + m.qty ELSE wrote[p][r]]]
    /\ todo' = [todo EXCEPT ![p] = @ \ {m}]
    /\ Step(p, IF todo[p] = {m} THEN "audit" ELSE "lock")
    /\ UNCHANGED <<dataVars, line, moves, shelfLock, chainLock, outcome>>

\* Mutant: the balance is read without FOR UPDATE.
ApplyUnlocked(p) ==
    /\ pc[p] = "move" /\ UNCHANGED crashes
    /\ \E m \in Due(p) :
          \/ Seen(p, m.row) + m.qty >= 0 /\ Write(p, m) /\ UNCHANGED rowLock
          \/ Seen(p, m.row) + m.qty < 0 /\ Abort(p, "short")

\* The row is there and locked (insert on conflict do nothing, then for update);
\* a balance below zero is refused, any other is written with its ledger row.
Apply(p) ==
    /\ pc[p] = "move" /\ UNCHANGED crashes
    /\ \E m \in Due(p) :
          /\ Mine(rowLock[m.row], p)
          /\ \/ /\ Seen(p, m.row) + m.qty >= 0
                /\ Write(p, m) /\ rowLock' = [rowLock EXCEPT ![m.row] = p]
             \/ Seen(p, m.row) + m.qty < 0 /\ Abort(p, "short")

\* appendInTx of the audit chain: one transaction of the tenant at a time.
Audit(p) ==
    /\ pc[p] = "audit" /\ Mine(chainLock, p)
    /\ chainLock' = p
    /\ Step(p, "commit")
    /\ UNCHANGED <<dataVars, planVars, shelfLock, rowLock, outcome, crashes>>

\* Mutant: the ledger row of a movement is not written.
CommitPart(p) ==
    /\ pc[p] = "commit"
    /\ balance' = [r \in Rows |-> Seen(p, r)]
    /\ ledger' = ledger \cup {m \in moves[p] : \E n \in moves[p] : Before(n, m)}
    /\ outcome' = [outcome EXCEPT ![p] = "posted"]
    /\ wrote' = [wrote EXCEPT ![p] = <<>>]
    /\ Step(p, "done") /\ Release(p)
    /\ UNCHANGED <<line, moves, todo, crashes>>

Commit(p) ==
    /\ pc[p] = "commit"
    /\ balance' = [r \in Rows |-> Seen(p, r)]
    /\ ledger' = ledger \cup moves[p]
    /\ outcome' = [outcome EXCEPT ![p] = "posted"]
    /\ wrote' = [wrote EXCEPT ![p] = <<>>]
    /\ Step(p, "done") /\ Release(p)
    /\ UNCHANGED <<line, moves, todo, crashes>>

Crash(p) ==
    /\ pc[p] # "done" /\ crashes < MaxCrashes
    /\ crashes' = crashes + 1
    /\ Abort(p, "dead")

\* The posting that p waits for, if it waits.
WaitsFor(p) ==
    {q \in Posts \ {p} :
        \/ LET l == Lines[p][line[p]]
           IN pc[p] = "resolve" /\ Unnamed(l) /\ shelfLock[l.from] = q
        \/ pc[p] = "lock" /\ \E m \in Due(p) : m.qty < 0 /\ shelfLock[m.row[1]] = q
        \/ pc[p] = "move" /\ \E m \in Due(p) : rowLock[m.row] = q
        \/ pc[p] = "audit" /\ chainLock = q}

\* Everyone p waits for, directly or through others.
Behind(p) ==
    LET upTo[n \in 1..Cardinality(Posts)] ==
          IF n = 1 THEN WaitsFor(p)
          ELSE upTo[n - 1] \cup UNION {WaitsFor(q) : q \in upTo[n - 1]}
    IN upTo[Cardinality(Posts)]

\* PostgreSQL ends a cycle of waiting transactions by aborting one of them.
BreakDeadlock(p) ==
    /\ pc[p] # "done"
    /\ p \in Behind(p)
    /\ Abort(p, "dead") /\ UNCHANGED crashes

Post(p) == Resolve(p) \/ LockShelf(p) \/ Apply(p) \/ Audit(p) \/ Commit(p)

Next == \E p \in Posts : Post(p) \/ Crash(p) \/ BreakDeadlock(p)
Spec == Init /\ [][Next]_vars

\* As long as some transaction can go on one does, and a deadlock is detected.
FairSpec == Spec /\ WF_vars(\E p \in Posts : Post(p) \/ BreakDeadlock(p))

(***************************************************************************)
(* Properties.                                                             *)
(***************************************************************************)
Outcomes == {"none", "posted", "short", "dead"}

\* Type invariant; no committed balance is negative.
TypeOK ==
    /\ balance \in [Rows -> Nat]
    /\ pc \in [Posts -> {"resolve", "lock", "move", "audit", "commit", "done"}]
    /\ \A m \in ledger : m.entry \in Posts /\ m.row \in Rows /\ m.qty \in Int
    /\ \A p \in Posts : todo[p] \subseteq moves[p] /\ DOMAIN wrote[p] \subseteq Rows
    /\ shelfLock \in [Shelves -> Posts \cup {Absent}]
    /\ rowLock \in [Rows -> Posts \cup {Absent}]
    /\ chainLock \in Posts \cup {Absent}
    /\ outcome \in [Posts -> Outcomes]
    /\ crashes \in 0..MaxCrashes

\* The units that movements take away, and those that they bring.
Units(ms) == UNION {{m} \X (1..(IF m.qty < 0 THEN -m.qty ELSE m.qty)) : m \in ms}
Drawn(ms, r) == Units({m \in ms : m.row = r /\ m.qty < 0})
Brought(ms, r) == Units({m \in ms : m.row = r /\ m.qty > 0})

\* The balances are what the ledger adds up to, row by row: no posting overwrites
\* the update of another, and none leaves half of its work.
LedgerAddsUp ==
    \A r \in Rows :
        balance[r] + Cardinality(Drawn(ledger, r)) = Opening[r] + Cardinality(Brought(ledger, r))

\* The movements ms of line l: its quantity out of its source and into its target,
\* as much out of each lot as into it.
InFull(ms, l) ==
    LET taken == {m \in ms : m.qty < 0}  given == {m \in ms : m.qty > 0} IN
    /\ \A m \in taken : m.row[1] = l.from
    /\ \A m \in given : m.row[1] = l.to
    /\ l.from # Absent => Cardinality(Units(taken)) = l.qty
    /\ l.to # Absent => Cardinality(Units(given)) = l.qty
    /\ l.from # Absent /\ l.to # Absent => \A b \in Lots :
          Cardinality(Drawn(ms, <<l.from, b>>)) = Cardinality(Brought(ms, <<l.to, b>>))

\* A posting is all or nothing, line by line and however resolution splits the
\* lines; one that is refused or dies moves nothing.
PostedInFull ==
    \A p \in Posts :
        LET mine == {m \in ledger : m.entry = p} IN
        IF outcome[p] # "posted" THEN mine = {}
        ELSE \A i \in DOMAIN Lines[p] : InFull({m \in mine : m.line = i}, Lines[p][i])

\* The lines of a posting that take from shelf s, and how much they take.
Takers(p, s) == {i \in DOMAIN Lines[p] : Lines[p][i].from = s}
Wanted(p, s) == Cardinality(UNION {{i} \X (1..Lines[p][i].qty) : i \in Takers(p, s)})
AllUnnamed(p) ==
    \A i \in DOMAIN Lines[p] : Lines[p][i].from # Absent => Lines[p][i].lot = Absent

\* What is left of a plan can be taken from what is there.
PlanFits(p) == \A r \in Rows : Cardinality(Drawn(todo[p], r)) <= Seen(p, r)

\* "So concurrent issues cannot both plan against the same lot": what was planned
\* for unnamed lines, one to a shelf, is there when it is taken, whoever else
\* posts, nominated lots and receipts included.
PlanStands ==
    \A p \in Posts :
        AllUnnamed(p) /\ (\A s \in Shelves : Cardinality(Takers(p, s)) <= 1)
          /\ pc[p] \in {"lock", "move"} => PlanFits(p)

\* A posting whose lines are unnamed, and which finds enough for all of them on
\* every shelf, has a plan that can be carried out.
PolicyFindsStock ==
    \A p \in Posts :
        AllUnnamed(p) /\ (\A s \in Shelves : Wanted(p, s) <= OnShelf(s))
          /\ pc[p] = "lock" /\ todo[p] = moves[p] => PlanFits(p)

\* Every posting ends, although postings that wait for each other can close a
\* cycle: the locks go with the transaction.
EachEnds == \A p \in Posts : <>(pc[p] = "done")
=============================================================================
