---------------------------- MODULE OrderToCash ----------------------------
(***************************************************************************)
(* The sales orders of one customer from the draft to the money: the       *)
(* credit gate, the dispatch with its stock issue and its invoice, and the *)
(* receipts (SalesService, AccountsService).  Every call is one READ       *)
(* COMMITTED transaction of several statements: what it reads it reads     *)
(* statement by statement, and all it writes appears with its commit.  No  *)
(* call locks the order.  What orders the commits is the advisory lock of  *)
(* the tenant's audit chain, which every writing transaction takes with    *)
(* its first audit row and holds to its end.                               *)
(* Goods are counted in units worth one each, so a quantity is its value,  *)
(* and a sum of quantities is the number of units there are.               *)
(***************************************************************************)
EXTENDS Integers, Sequences, FiniteSets

CONSTANTS
    Orders,      \* sales_order rows the clerks may create
    Lines,       \* their lines
    OrderOf,     \* the order of a line
    Qty,         \* the quantity a line orders
    CustPo,      \* the customer's number of an order
    Limit,       \* customer.credit_limit
    Stock,       \* what the shelf holds at first
    Clerks,      \* requests that may be under way at once
    Amounts,     \* amounts a receipt may have
    MaxCalls,    \* bound: calls that begin
    None         \* no clerk

OrderAssumption ==
    /\ IsFiniteSet(Lines) /\ OrderOf \in [Lines -> Orders]
    /\ Qty \in [Lines -> Nat \ {0}]
    /\ DOMAIN CustPo = Orders
    /\ Limit \in Nat /\ Stock \in Nat /\ MaxCalls \in Nat
    /\ Amounts \subseteq Nat \ {0}
    /\ None \notin Clerks
ASSUME OrderAssumption

VARIABLES
    order,       \* status and credit_status of each order
    delivered,   \* delivered_qty of each line
    shipped,     \* what the stock ledger says has left the shelf for a line
    shelf,       \* what is left on the shelf
    invoices,    \* ar_open_item rows in the order they fall due
    chain,       \* who holds the lock of the audit chain
    call,        \* each clerk's transaction: its step and what it has read
    calls        \* how many have begun

books == <<order, delivered, shipped, shelf, invoices>>
vars == <<order, delivered, shipped, shelf, invoices, chain, call, calls>>

LinesOf(o) == {l \in Lines : OrderOf[l] = o}

(* The units of a quantity f[x] of each x: their number is the sum of f.   *)
Units(f) == UNION {{x} \X (1 .. f[x]) : x \in DOMAIN f}
Ordered(orders) == Units([l \in UNION {LinesOf(o) : o \in orders} |-> Qty[l]])
Total(o) == Cardinality(Ordered({o}))

Open == {"confirmed", "partially_dispatched"}
Idle == [step |-> "idle"]

(* getCustomerOutstandingInTx, and the rows the gate sums next to it.      *)
Due(i) == invoices[i].gross - invoices[i].received
Outstanding ==
    Cardinality(Units([i \in {j \in DOMAIN invoices : ~invoices[j].settled} |-> Due(i)]))
Committed(others) ==
    Cardinality(Ordered({o \in others : order[o].status \in Open}))

Init ==
    /\ order = [o \in Orders |-> [status |-> "absent", credit |-> "pending"]]
    /\ delivered = [l \in Lines |-> 0]
    /\ shipped = [l \in Lines |-> 0]
    /\ shelf = Stock
    /\ invoices = <<>>
    /\ chain = None
    /\ call = [c \in Clerks |-> Idle]
    /\ calls = 0

Begin(c, next) ==
    /\ call[c].step = "idle"
    /\ calls < MaxCalls
    /\ calls' = calls + 1
    /\ call' = [call EXCEPT ![c] = next]
    /\ UNCHANGED <<books, chain>>

(* A statement leaves its result with the call.                            *)
Reads(c, seen) ==
    /\ call' = [call EXCEPT ![c] = seen]
    /\ UNCHANGED <<books, chain, calls>>

Ends(c) ==
    /\ call' = [call EXCEPT ![c] = Idle]
    /\ UNCHANGED calls

(* createOrder takes the chain's lock before it looks for the customer's   *)
(* number, so nothing comes between its reads and its commit.              *)
CreateOrder(c, o) ==
    /\ call[c].step = "idle"
    /\ calls < MaxCalls
    /\ chain = None
    /\ order[o].status = "absent"
    /\ \A p \in Orders :
          order[p].status # "absent" => CustPo[p] # CustPo[o]
    /\ order' = [order EXCEPT ![o] = [status |-> "draft", credit |-> "pending"]]
    /\ calls' = calls + 1
    /\ UNCHANGED <<delivered, shipped, shelf, invoices, chain, call>>
-----------------------------------------------------------------------------
(* confirmOrder: the order, the invoices, the other orders, the verdict.   *)
ConfirmOrder(c, o, override) ==
    /\ order[o].status \in {"draft", "credit_hold"}
    /\ Begin(c, [step |-> "outstanding", order |-> o, override |-> override])

ReadOutstanding(c) ==
    /\ call[c].step = "outstanding"
    /\ Reads(c, [step |-> "committed", order |-> call[c].order,
                 override |-> call[c].override, outstanding |-> Outstanding])

ReadCommitted(c) ==
    /\ call[c].step = "committed"
    /\ Reads(c, [step |-> "decide", order |-> call[c].order,
                 override |-> call[c].override, outstanding |-> call[c].outstanding,
                 committed |-> Committed(Orders \ {call[c].order})])

(* Mutant: only the orders are held against the limit, not the invoices.   *)
VerdictOnOrders(seen) ==
    IF seen.committed + Total(seen.order) <= Limit
    THEN [status |-> "confirmed", credit |-> "passed"]
    ELSE [status |-> "credit_hold", credit |-> "hold"]

Verdict(seen) ==
    IF seen.outstanding + seen.committed + Total(seen.order) <= Limit
    THEN [status |-> "confirmed", credit |-> "passed"]
    ELSE IF seen.override
    THEN [status |-> "confirmed", credit |-> "override"]
    ELSE [status |-> "credit_hold", credit |-> "hold"]

Decide(c) ==
    /\ call[c].step = "decide"
    /\ chain = None
    /\ order' = [order EXCEPT ![call[c].order] = Verdict(call[c])]
    /\ Ends(c)
    /\ UNCHANGED <<delivered, shipped, shelf, invoices, chain>>
-----------------------------------------------------------------------------
(* dispatchOrder: the order and then its lines are read, and the request   *)
(* is held against what the lines say is still to ship.                    *)
DispatchOrder(c, o) ==
    /\ order[o].status \in Open
    /\ Begin(c, [step |-> "lines", order |-> o])

Remaining(l) == Qty[l] - delivered[l]

(* A request may name a line several times, each entry held against the    *)
(* same remainder: goods is what it asks for in all, last its last entry.   *)
MayAsk(goods, last) ==
    /\ \E l \in DOMAIN goods : goods[l] > 0
    /\ \A l \in DOMAIN goods :
          /\ last[l] <= goods[l] /\ last[l] <= Remaining(l)
          /\ last[l] = 0 => goods[l] = 0

ReadLines(c) ==
    /\ call[c].step = "lines"
    /\ LET lines == LinesOf(call[c].order) IN
       \E goods \in [lines -> 0 .. Stock], last \in [lines -> UNION {0 .. Qty[l] : l \in Lines}] :
          /\ MayAsk(goods, last)
          /\ Reads(c, [step |-> "post", order |-> call[c].order, goods |-> goods,
                       says |-> [l \in lines |-> delivered[l] + last[l]]])

Load(c) == Cardinality(Units(call[c].goods))

(* Mutant: the stock is posted without the lock of the chain.              *)
PostIssueUnlocked(c) ==
    /\ call[c].step = "post"
    /\ Load(c) <= shelf
    /\ call' = [call EXCEPT ![c].step = "tally"]
    /\ UNCHANGED <<books, chain, calls>>

(* The stock entry: its audit row takes the chain's lock until the end.    *)
PostIssue(c) ==
    /\ call[c].step = "post"
    /\ chain = None
    /\ Load(c) <= shelf
    /\ chain' = c
    /\ call' = [call EXCEPT ![c].step = "tally"]
    /\ UNCHANGED <<books, calls>>

(* What a line will say: the quantity read before plus its last entry.     *)
Written(c, l) ==
    IF l \in DOMAIN call[c].goods /\ call[c].goods[l] > 0
    THEN call[c].says[l]
    ELSE delivered[l]

(* Mutant: the lines are written in a transaction before the dispatch's.   *)
TallyCommits(c) ==
    /\ call[c].step = "tally"
    /\ delivered' = [l \in Lines |-> Written(c, l)]
    /\ call' = [call EXCEPT ![c] = [step |-> "ship", order |-> call[c].order,
          goods |-> call[c].goods, says |-> call[c].says,
          status |-> "partially_dispatched"]]
    /\ UNCHANGED <<order, shipped, shelf, invoices, chain, calls>>

(* The lines are read again, this transaction's own updates among them.    *)
Tally(c) ==
    /\ call[c].step = "tally"
    /\ Reads(c, [step |-> "ship", order |-> call[c].order,
                 goods |-> call[c].goods, says |-> call[c].says,
                 status |-> IF \A l \in LinesOf(call[c].order) :
                                  Written(c, l) >= Qty[l]
                            THEN "dispatched" ELSE "partially_dispatched"])

(* raiseSalesInvoiceInTx values what this dispatch carries.                *)
Invoiced(c) ==
    Append(invoices,
           [gross |-> Load(c), received |-> 0, allocated |-> 0, settled |-> FALSE])

(* The commit: goods, lines, order and invoice together.                   *)
Ship(c) ==
    /\ call[c].step = "ship"
    /\ delivered' = [l \in Lines |-> Written(c, l)]
    /\ shipped' = [l \in Lines |->
          shipped[l] + IF l \in DOMAIN call[c].goods THEN call[c].goods[l] ELSE 0]
    /\ shelf' = shelf - Load(c)
    /\ order' = [order EXCEPT ![call[c].order].status = call[c].status]
    /\ invoices' = Invoiced(c)
    /\ chain' = IF chain = c THEN None ELSE chain
    /\ Ends(c)
-----------------------------------------------------------------------------
(* recordReceipt: the open invoices are read, then the money goes to the   *)
(* oldest first.                                                           *)
RecordReceipt(c, amount) ==
    Begin(c, [step |-> "allocate", amount |-> amount,
              open |-> {i \in DOMAIN invoices : ~invoices[i].settled},
              seen |-> [i \in DOMAIN invoices |-> invoices[i].received]])

Smaller(a, b) == IF a < b THEN a ELSE b

(* What invoice i gets of what the older ones have left.                   *)
Share(seen, i, left) ==
    IF i \in seen.open THEN Smaller(invoices[i].gross - seen.seen[i], left) ELSE 0

(* What is left of the receipt when the loop comes to each invoice.        *)
Leaves(seen) ==
    {left \in [1 .. Len(invoices) + 1 -> 0 .. seen.amount] :
        /\ left[1] = seen.amount
        /\ \A i \in DOMAIN invoices : left[i + 1] = left[i] - Share(seen, i, left[i])}

(* An invoice as the receipt writes it.                                    *)
Credited(i, received, share) ==
    [invoices[i] EXCEPT !.received = received, !.allocated = @ + share,
                        !.settled = received >= invoices[i].gross]

(* Mutant: every open invoice is credited with the whole receipt.          *)
AllocateWhole(c) ==
    /\ call[c].step = "allocate"
    /\ chain = None
    /\ \E left \in Leaves(call[c]) :
          invoices' = [i \in DOMAIN invoices |->
              LET share == Share(call[c], i, left[i]) IN
              IF share = 0 THEN invoices[i]
              ELSE Credited(i, call[c].seen[i] + call[c].amount, share)]
    /\ Ends(c)
    /\ UNCHANGED <<order, delivered, shipped, shelf, chain>>

Allocate(c) ==
    /\ call[c].step = "allocate"
    /\ chain = None
    /\ \E left \in Leaves(call[c]) :
          invoices' = [i \in DOMAIN invoices |->
              LET share == Share(call[c], i, left[i]) IN
              IF share = 0 THEN invoices[i]
              ELSE Credited(i, call[c].seen[i] + share, share)]
    /\ Ends(c)
    /\ UNCHANGED <<order, delivered, shipped, shelf, chain>>
-----------------------------------------------------------------------------
(* A refusal, a lost connection, a deadlock that PostgreSQL breaks: the    *)
(* transaction is rolled back and its locks are free.                      *)
Rollback(c) ==
    /\ call[c].step # "idle"
    /\ chain' = IF chain = c THEN None ELSE chain
    /\ Ends(c)
    /\ UNCHANGED books

Sell(c) ==
    \/ \E o \in Orders : CreateOrder(c, o)
    \/ \E o \in Orders, override \in BOOLEAN : ConfirmOrder(c, o, override)
    \/ ReadOutstanding(c) \/ ReadCommitted(c) \/ Decide(c)
    \/ \E o \in Orders : DispatchOrder(c, o)
    \/ ReadLines(c) \/ PostIssue(c) \/ Tally(c) \/ Ship(c)

Next == \E c \in Clerks :
    \/ Sell(c)
    \/ \E amount \in Amounts : RecordReceipt(c, amount)
    \/ Allocate(c)
    \/ Rollback(c)

Spec == Init /\ [][Next]_vars
-----------------------------------------------------------------------------
TypeOK ==
    /\ order \in [Orders -> [status : {"absent", "draft", "credit_hold", "dispatched"} \cup Open,
                             credit : {"pending", "passed", "hold", "override"}]]
    /\ delivered \in [Lines -> Nat] /\ shipped \in [Lines -> Nat]
    /\ shelf \in 0 .. Stock
    /\ invoices \in Seq([gross : Nat, received : Nat, allocated : Nat, settled : BOOLEAN])
    /\ chain \in Clerks \cup {None}
    /\ calls \in 0 .. MaxCalls

(* Two clerks who ship the same line, or one who names it twice, overwrite *)
(* one delivered_qty with another, yet what the order says was delivered   *)
(* did leave the shelf, and never more than the line orders is recorded:   *)
(* doDispatch adds to a quantity it read before the stock was posted.      *)
DeliveredHasLeft ==
    \A l \in Lines : delivered[l] <= shipped[l] /\ delivered[l] <= Qty[l]

(* The status doDispatch writes is true of the lines however two dispatches *)
(* and a late confirmation interleave: an order that says dispatched has   *)
(* left in full, and no order whose lines are all delivered waits among    *)
(* the partly dispatched ones.                                             *)
StatusFollowsGoods ==
    \A o \in Orders :
        /\ order[o].status = "dispatched" => \A l \in LinesOf(o) : shipped[l] >= Qty[l]
        /\ order[o].status = "partially_dispatched" =>
              \E l \in LinesOf(o) : delivered[l] < Qty[l]

(* Two receipts may allocate to one invoice at the same time and the later *)
(* write wins, yet an invoice never shows more received than customers'    *)
(* money was allocated to it, and a settled one was paid in full.          *)
SettledIsPaid ==
    \A i \in DOMAIN invoices :
        /\ invoices[i].received <= invoices[i].allocated
        /\ invoices[i].settled => invoices[i].allocated >= invoices[i].gross

(* The gate's arithmetic: if the figures a confirmation has read are still *)
(* those of the books when it commits, an order it passes leaves the       *)
(* customer's invoices and open orders within the limit.                   *)
Fresh(c) ==
    /\ call[c].outstanding = Outstanding
    /\ call[c].committed = Committed(Orders \ {call[c].order})
Exposure == Outstanding + Committed(Orders)
GateHolds ==
    [][\A c \in Clerks :
          (call[c].step = "decide" /\ Fresh(c) /\ order' # order
             /\ call'[c].step = "idle" /\ order'[call[c].order].credit = "passed")
          => Exposure' <= Limit]_vars

(* "you can never dispatch more than was ordered"                          *)
NeverOverDispatched == \A l \in Lines : shipped[l] <= Qty[l]
=============================================================================
