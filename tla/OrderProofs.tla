---------------------------- MODULE OrderProofs ------------------------------
(***************************************************************************)
(* What the orders say of the goods, for any number of clerks, orders,     *)
(* lines and calls.  A dispatch adds to a quantity that it read before it  *)
(* had the lock of the audit chain, so the quantity may be out of date; it *)
(* is never more than what had left by then, and nothing that has left     *)
(* comes back.  The same of receipts and of the credit gate follows.       *)
(***************************************************************************)
EXTENDS OrderToCash, FiniteSetTheorems, TLAPS

Holding == {"tally", "ship"}

\* What a dispatch will say of a line is within the order, and no more than had
\* left before plus what it carries itself.
Carries(x) ==
    /\ "step" \in DOMAIN x /\ x.order \in Orders
    /\ x.goods \in [LinesOf(x.order) -> Nat] /\ x.says \in [LinesOf(x.order) -> Nat]
    /\ \A l \in LinesOf(x.order) : /\ x.says[l] <= Qty[l]
                                   /\ x.says[l] <= shipped[l] + x.goods[l]
Settles(c) ==
    IF \A l \in LinesOf(call[c].order) : Written(c, l) >= Qty[l]
    THEN "dispatched" ELSE "partially_dispatched"

OrderRows == [status : {"absent", "draft", "credit_hold", "dispatched"} \cup Open,
              credit : {"pending", "passed", "hold", "override"}]
GoodsTyped ==
    /\ DOMAIN call = Clerks /\ order \in [Orders -> OrderRows]
    /\ delivered \in [Lines -> Nat] /\ shipped \in [Lines -> Nat]
Dispatches ==
    \A c \in Clerks :
        /\ call[c].step = "lines" => call[c].order \in Orders
        /\ call[c].step \in {"post"} \cup Holding => Carries(call[c])
        /\ call[c].step \in Holding => chain = c
        /\ call[c].step = "ship" => call[c].status = Settles(c)
Goods == GoodsTyped /\ Dispatches /\ DeliveredHasLeft /\ StatusFollowsGoods

LEMMA LinesTyped ==
    /\ Qty \in [Lines -> Nat] /\ None \notin Clerks
    /\ \A o \in Orders : LinesOf(o) \subseteq Lines
    /\ \A o, p \in Orders : o # p => LinesOf(o) \cap LinesOf(p) = {}
<1> QED
  BY OrderAssumption DEF OrderAssumption, LinesOf

LEMMA GoodsInitially ==
    Init => Goods
<1> SUFFICES ASSUME Init PROVE Goods
  OBVIOUS
<1>1. \A c \in Clerks : call[c].step = "idle"
  BY DEF Init, Idle
<1>2. GoodsTyped
  BY DEF Init, GoodsTyped, OrderRows
<1>3. Dispatches
  BY <1>1 DEF Dispatches, Holding
<1>4. DeliveredHasLeft
  BY LinesTyped DEF Init, DeliveredHasLeft
<1>5. StatusFollowsGoods
  BY DEF Init, StatusFollowsGoods
<1> QED
  BY <1>2, <1>3, <1>4, <1>5 DEF Goods

\* The goods stay where they are: what is left to show is that the calls are
\* sound, and that the orders whose status changes say nothing of their goods.
LEMMA GoodsRest ==
    ASSUME Goods, UNCHANGED <<delivered, shipped>>,
           DOMAIN call' = Clerks, order' \in [Orders -> OrderRows], Dispatches',
           \A o \in Orders : \/ order'[o].status = order[o].status
                             \/ order'[o].status \notin {"dispatched", "partially_dispatched"}
    PROVE  Goods'
<1>1. GoodsTyped' /\ DeliveredHasLeft'
  BY DEF Goods, GoodsTyped, DeliveredHasLeft
<1>2. StatusFollowsGoods'
  BY DEF Goods, StatusFollowsGoods
<1> QED
  BY <1>1, <1>2 DEF Goods

\* A call goes on, or another ends, while nothing is delivered.
LEMMA DispatchesKept ==
    ASSUME Goods, UNCHANGED <<delivered, shipped>>,
           NEW c \in Clerks, NEW x, call' = [call EXCEPT ![c] = x],
           x.step = "lines" => x.order \in Orders,
           x.step \in {"post"} \cup Holding => Carries(x),
           x.step \in Holding => chain' = c,
           x.step = "ship" => call'[c].status = Settles(c)',
           \A d \in Clerks : d # c /\ chain = d => chain' = d
    PROVE  Dispatches' /\ DOMAIN call' = Clerks
<1>1. \A d \in Clerks : call'[d] = IF d = c THEN x ELSE call[d]
  BY DEF Goods, GoodsTyped
<1>2. ASSUME NEW d \in Clerks, d # c
      PROVE  /\ call'[d].step = "lines" => call'[d].order \in Orders
             /\ call'[d].step \in {"post"} \cup Holding => Carries(call[d])'
             /\ call'[d].step \in Holding => chain' = d
             /\ call'[d].step = "ship" => call'[d].status = Settles(d)'
  <2>1. call'[d] = call[d]
    BY <1>1, <1>2
  <2>2. call[d].step \in {"post"} \cup Holding => Carries(call[d])'
    BY <2>1 DEF Goods, Dispatches, Carries
  <2>3. call[d].step = "ship" => call'[d].status = Settles(d)'
    BY <2>1 DEF Goods, Dispatches, Settles, Written
  <2> QED
    BY <1>2, <2>1, <2>2, <2>3 DEF Goods, Dispatches
<1>3. /\ call'[c].step = "lines" => call'[c].order \in Orders
      /\ call'[c].step \in {"post"} \cup Holding => Carries(call[c])'
      /\ call'[c].step \in Holding => chain' = c
      /\ call'[c].step = "ship" => call'[c].status = Settles(c)'
  BY <1>1 DEF Carries
<1>4. DOMAIN call' = Clerks
  BY DEF Goods, GoodsTyped
<1> QED
  BY <1>2, <1>3, <1>4 DEF Dispatches

\* The commit of a dispatch.
LEMMA ShipKeeps ==
    ASSUME Goods, NEW c \in Clerks, Ship(c)
    PROVE  Goods'
<1> DEFINE o == call[c].order
           goods == call[c].goods
           says == call[c].says
           W == [l \in Lines |-> Written(c, l)]
<1>1. /\ Carries(call[c]) /\ chain = c /\ call[c].status = Settles(c)
      /\ \A d \in Clerks : d # c => call[d].step \notin Holding
  BY DEF Ship, Goods, Dispatches, Holding
<1>2. /\ delivered' = W
      /\ shipped' = [l \in Lines |-> shipped[l] + IF l \in DOMAIN goods THEN goods[l] ELSE 0]
      /\ order' = [order EXCEPT ![o].status = call[c].status]
      /\ call' = [call EXCEPT ![c] = Idle]
  BY DEF Ship, Ends
<1>3. /\ o \in Orders /\ DOMAIN goods = LinesOf(o) /\ LinesOf(o) \subseteq Lines
      /\ \A l \in LinesOf(o) : /\ goods[l] \in Nat /\ says[l] \in Nat
                               /\ says[l] <= Qty[l] /\ says[l] <= shipped[l] + goods[l]
  BY <1>1, LinesTyped DEF Carries
<1>4. delivered \in [Lines -> Nat] /\ shipped \in [Lines -> Nat] /\ Qty \in [Lines -> Nat]
  BY LinesTyped DEF Goods, GoodsTyped
<1>5. \A l \in Lines : W[l] = IF l \in LinesOf(o) /\ goods[l] > 0
                              THEN says[l] ELSE delivered[l]
  BY <1>3 DEF Written
<1> HIDE DEF W
<1>6. \A l \in Lines : /\ shipped'[l] \in Nat /\ shipped[l] <= shipped'[l]
                       /\ l \in LinesOf(o) => shipped'[l] = shipped[l] + goods[l]
  BY <1>2, <1>3, <1>4
<1>7. \A l \in Lines : /\ delivered'[l] \in Nat /\ delivered'[l] <= shipped'[l]
                       /\ delivered'[l] <= Qty[l]
                       /\ l \notin LinesOf(o) => delivered'[l] = delivered[l]
  <2> SUFFICES ASSUME NEW l \in Lines
               PROVE  /\ delivered'[l] \in Nat /\ delivered'[l] <= shipped'[l]
                      /\ delivered'[l] <= Qty[l]
                      /\ l \notin LinesOf(o) => delivered'[l] = delivered[l]
    OBVIOUS
  <2>1. delivered'[l] = W[l] /\ delivered[l] <= shipped[l] /\ delivered[l] <= Qty[l]
    BY <1>2 DEF Goods, DeliveredHasLeft
  <2>2. CASE l \in LinesOf(o) /\ goods[l] > 0
    BY <1>3, <1>4, <1>5, <1>6, <2>1, <2>2
  <2>3. CASE ~ (l \in LinesOf(o) /\ goods[l] > 0)
    BY <1>4, <1>5, <1>6, <2>1, <2>3
  <2> QED
    BY <2>2, <2>3
<1>8. GoodsTyped'
  <2>1. delivered' \in [Lines -> Nat]
    BY <1>2, <1>7 DEF W
  <2>2. shipped' \in [Lines -> Nat]
    BY <1>2, <1>6
  <2>3. Settles(c) \in {"dispatched", "partially_dispatched"}
    BY DEF Settles
  <2>4. order' \in [Orders -> OrderRows]
    BY <1>1, <1>2, <1>3, <2>3 DEF Goods, GoodsTyped, OrderRows, Open
  <2> QED
    BY <1>2, <2>1, <2>2, <2>4 DEF Goods, GoodsTyped
<1>9. DeliveredHasLeft'
  BY <1>7 DEF DeliveredHasLeft
<1>10. Dispatches'
  <2> SUFFICES ASSUME NEW d \in Clerks
               PROVE  /\ call'[d].step = "lines" => call'[d].order \in Orders
                      /\ call'[d].step \in {"post"} \cup Holding => Carries(call[d])'
                      /\ call'[d].step \notin Holding
    BY DEF Dispatches, Holding
  <2>1. CASE d = c
    <3>1. call'[d] = Idle
      BY <1>2, <2>1 DEF Goods, GoodsTyped
    <3> QED
      BY <3>1 DEF Idle, Holding
  <2>2. CASE d # c
    <3>1. call'[d] = call[d] /\ call[d].step \notin Holding
      BY <1>1, <1>2, <2>2 DEF Goods, GoodsTyped
    <3>2. ASSUME call[d].step \in {"post"} PROVE Carries(call[d])'
      <4>1. Carries(call[d])
        BY <3>2 DEF Goods, Dispatches
      <4>2. \A l \in LinesOf(call[d].order) : call[d].says[l] <= shipped'[l] + call[d].goods[l]
        BY <1>4, <1>6, <4>1, LinesTyped DEF Carries
      <4> QED
        BY <3>1, <4>1, <4>2 DEF Carries
    <3> QED
      BY <3>1, <3>2 DEF Goods, Dispatches
  <2> QED
    BY <2>1, <2>2
<1>11. StatusFollowsGoods'
  <2> SUFFICES ASSUME NEW p \in Orders
               PROVE  /\ order'[p].status = "dispatched" =>
                            \A l \in LinesOf(p) : shipped'[l] >= Qty[l]
                      /\ order'[p].status = "partially_dispatched" =>
                            \E l \in LinesOf(p) : delivered'[l] < Qty[l]
    BY DEF StatusFollowsGoods
  <2>1. CASE p # o
    <3>1. order'[p] = order[p] /\ LinesOf(p) \cap LinesOf(o) = {} /\ LinesOf(p) \subseteq Lines
      BY <1>2, <1>3, <2>1, LinesTyped DEF Goods, GoodsTyped
    <3>2. \A l \in LinesOf(p) : delivered'[l] = delivered[l] /\ shipped[l] <= shipped'[l]
      BY <1>6, <1>7, <3>1
    <3>3. \A l \in LinesOf(p) : shipped[l] \in Nat /\ shipped'[l] \in Nat /\ Qty[l] \in Nat
      BY <1>4, <1>6, <3>1
    <3> QED
      BY <3>1, <3>2, <3>3 DEF Goods, StatusFollowsGoods
  <2>2. CASE p = o
    <3>1. order'[o].status = Settles(c)
      BY <1>1, <1>2, <1>3 DEF Goods, GoodsTyped, OrderRows
    <3>2. \A l \in LinesOf(o) : Written(c, l) = delivered'[l]
      BY <1>2, <1>3 DEF W
    <3>3. \A l \in LinesOf(o) : delivered'[l] \in Nat /\ shipped'[l] \in Nat /\ Qty[l] \in Nat
                                /\ delivered'[l] <= shipped'[l]
      BY <1>3, <1>4, <1>6, <1>7
    <3>4. Settles(c) = "dispatched" => \A l \in LinesOf(o) : delivered'[l] >= Qty[l]
      BY <3>2 DEF Settles
    <3>5. Settles(c) = "partially_dispatched" => \E l \in LinesOf(o) : ~ (delivered'[l] >= Qty[l])
      BY <3>2 DEF Settles
    <3> QED
      BY <2>2, <3>1, <3>3, <3>4, <3>5
  <2> QED
    BY <2>1, <2>2
<1> QED
  BY <1>8, <1>9, <1>10, <1>11 DEF Goods

LEMMA GoodsNext ==
    Goods /\ [Next]_vars => Goods'
<1> SUFFICES ASSUME Goods, [Next]_vars PROVE Goods'
  OBVIOUS
<1>1. /\ DOMAIN call = Clerks /\ order \in [Orders -> OrderRows]
      /\ delivered \in [Lines -> Nat] /\ shipped \in [Lines -> Nat]
  BY DEF Goods, GoodsTyped
<1>2. ASSUME UNCHANGED <<delivered, shipped, order>>, NEW c \in Clerks, NEW x,
             call' = [call EXCEPT ![c] = x],
             x.step = "lines" => x.order \in Orders,
             x.step \in {"post"} \cup Holding => Carries(x),
             x.step \in Holding => chain' = c,
             x.step = "ship" => call'[c].status = Settles(c)',
             \A d \in Clerks : d # c /\ chain = d => chain' = d
      PROVE  Goods'
  <2>1. Dispatches' /\ DOMAIN call' = Clerks
    BY <1>2, DispatchesKept
  <2> QED
    BY <1>1, <1>2, <2>1, GoodsRest
<1>3. ASSUME UNCHANGED <<delivered, shipped, order>>, NEW c \in Clerks, NEW x,
             call' = [call EXCEPT ![c] = x], x.step \notin {"post"} \cup Holding,
             x.step = "lines" => x.order \in Orders,
             \A d \in Clerks : d # c /\ chain = d => chain' = d
      PROVE  Goods'
  <2>1. x.step \notin Holding /\ x.step # "ship"
    BY <1>3 DEF Holding
  <2> QED
    BY <1>2, <1>3, <2>1
<1>4. ASSUME NEW c \in Clerks, NEW o \in Orders, CreateOrder(c, o) PROVE Goods'
  <2>1. /\ order' = [order EXCEPT ![o] = [status |-> "draft", credit |-> "pending"]]
        /\ UNCHANGED <<delivered, shipped, chain, call>>
    BY <1>4 DEF CreateOrder
  <2>2. \A p \in Orders : \/ order'[p].status = order[p].status
                          \/ order'[p].status \notin {"dispatched", "partially_dispatched"}
    BY <1>1, <2>1
  <2>3. order' \in [Orders -> OrderRows]
    BY <1>1, <2>1 DEF OrderRows
  <2>4. Dispatches'
    BY <2>1 DEF Goods, Dispatches, Carries, Settles, Written
  <2> QED
    BY <1>1, <2>1, <2>2, <2>3, <2>4, GoodsRest
<1>5. ASSUME NEW c \in Clerks, Decide(c) PROVE Goods'
  <2> DEFINE o == call[c].order
             v == Verdict(call[c])
  <2>1. /\ order' = [order EXCEPT ![o] = v] /\ call' = [call EXCEPT ![c] = Idle]
        /\ UNCHANGED <<delivered, shipped, chain>>
    BY <1>5 DEF Decide, Ends
  <2>2. v \in OrderRows /\ v.status \notin {"dispatched", "partially_dispatched"}
    BY DEF Verdict, OrderRows, Open
  <2> HIDE DEF o, v
  <2>3. \A p \in Orders : \/ order'[p].status = order[p].status
                          \/ order'[p].status \notin {"dispatched", "partially_dispatched"}
    BY <1>1, <2>1, <2>2
  <2>4. order' \in [Orders -> OrderRows]
    BY <1>1, <2>1, <2>2
  <2>5. Idle.step \notin {"post"} \cup Holding /\ Idle.step \notin {"ship", "lines"}
    BY DEF Idle, Holding
  <2>6. Dispatches' /\ DOMAIN call' = Clerks
    <3> HIDE DEF Idle
    <3> QED
      BY <2>1, <2>5, DispatchesKept
  <2> QED
    BY <2>1, <2>3, <2>4, <2>6, GoodsRest
<1>6. ASSUME NEW c \in Clerks, NEW o \in Orders, NEW override \in BOOLEAN,
             ConfirmOrder(c, o, override) \/ DispatchOrder(c, o)
      PROVE  Goods'
  <2>1. /\ \E x : /\ call' = [call EXCEPT ![c] = x] /\ x.step \notin {"post"} \cup Holding
                  /\ x.step = "lines" => x.order \in Orders
        /\ UNCHANGED <<delivered, shipped, order, chain>>
    BY <1>6 DEF ConfirmOrder, DispatchOrder, Begin, books, Holding
  <2> QED
    BY <1>3, <2>1
<1>7. ASSUME NEW c \in Clerks, NEW amount \in Amounts, RecordReceipt(c, amount) PROVE Goods'
  <2> DEFINE x == [step |-> "allocate", amount |-> amount,
                   open |-> {i \in DOMAIN invoices : ~invoices[i].settled},
                   seen |-> [i \in DOMAIN invoices |-> invoices[i].received]]
  <2>1. call' = [call EXCEPT ![c] = x] /\ UNCHANGED <<delivered, shipped, order, chain>>
    BY <1>7 DEF RecordReceipt, Begin, books
  <2>2. x.step \notin {"post"} \cup Holding /\ x.step # "lines"
    BY DEF Holding
  <2> HIDE DEF x
  <2> QED
    BY <1>3, <2>1, <2>2
<1>8. ASSUME NEW c \in Clerks, ReadOutstanding(c) \/ ReadCommitted(c) PROVE Goods'
  <2>1. /\ \E x : /\ call' = [call EXCEPT ![c] = x] /\ x.step \notin {"post"} \cup Holding
                  /\ x.step = "lines" => x.order \in Orders
        /\ UNCHANGED <<delivered, shipped, order, chain>>
    BY <1>8 DEF ReadOutstanding, ReadCommitted, Reads, books, Holding
  <2> QED
    BY <1>3, <2>1
<1>9. ASSUME NEW c \in Clerks, Allocate(c) \/ Rollback(c) PROVE Goods'
  <2>1. /\ call' = [call EXCEPT ![c] = Idle]
        /\ UNCHANGED <<delivered, shipped, order>>
        /\ \A d \in Clerks : d # c /\ chain = d => chain' = d
    BY <1>9 DEF Allocate, Rollback, Ends, books
  <2>2. Idle.step \notin {"post"} \cup Holding /\ Idle.step # "lines"
    BY DEF Idle, Holding
  <2> HIDE DEF Idle
  <2> QED
    BY <1>3, <2>1, <2>2
<1>10. ASSUME NEW c \in Clerks, ReadLines(c) PROVE Goods'
  <2> DEFINE o == call[c].order
             lines == LinesOf(o)
  <2>1. PICK goods \in [lines -> 0 .. Stock],
             last \in [lines -> UNION {0 .. Qty[l] : l \in Lines}] :
          /\ MayAsk(goods, last)
          /\ Reads(c, [step |-> "post", order |-> o, goods |-> goods,
                       says |-> [l \in lines |-> delivered[l] + last[l]]])
    BY <1>10 DEF ReadLines
  <2> DEFINE x == [step |-> "post", order |-> o, goods |-> goods,
                   says |-> [l \in lines |-> delivered[l] + last[l]]]
  <2>2. call' = [call EXCEPT ![c] = x] /\ UNCHANGED <<delivered, shipped, order, chain>>
    BY <2>1 DEF Reads, books
  <2>3. o \in Orders
    BY <1>10 DEF ReadLines, Goods, Dispatches
  <2>4. LinesOf(o) \subseteq Lines /\ Qty \in [Lines -> Nat]
    BY <2>3, LinesTyped
  <2>5. \A l \in LinesOf(o) : /\ goods[l] \in Nat /\ delivered[l] \in Nat /\ last[l] \in Nat
                              /\ delivered[l] + last[l] <= Qty[l] /\ last[l] <= goods[l]
    BY <1>1, <2>1, <2>4 DEF MayAsk, Remaining
  <2>8. \A l \in LinesOf(o) : delivered[l] <= shipped[l] /\ shipped[l] \in Nat
    BY <1>1, <2>4 DEF Goods, DeliveredHasLeft
  <2>9. goods \in [lines -> Nat] /\ x.says \in [lines -> Nat]
    BY <2>1, <2>5
  <2>6. Carries(x)
    BY <2>3, <2>5, <2>8, <2>9 DEF Carries
  <2>7. x.step \notin Holding /\ x.step \notin {"ship", "lines"}
    BY DEF Holding
  <2> HIDE DEF x
  <2> QED
    BY <1>2, <2>2, <2>6, <2>7
<1>11. ASSUME NEW c \in Clerks, PostIssue(c) PROVE Goods'
  <2> DEFINE x == [call[c] EXCEPT !.step = "tally"]
  <2>1. /\ call' = [call EXCEPT ![c] = x] /\ chain = None /\ chain' = c
        /\ UNCHANGED <<delivered, shipped, order>>
    BY <1>11 DEF PostIssue, books
  <2>2. Carries(call[c])
    BY <1>11 DEF PostIssue, Goods, Dispatches
  <2>3. x.step = "tally" /\ Carries(x)
    BY <2>2 DEF Carries
  <2>4. \A d \in Clerks : d # c /\ chain = d => chain' = d
    BY <2>1, LinesTyped
  <2> HIDE DEF x
  <2> QED
    BY <1>2, <2>1, <2>3, <2>4
<1>12. ASSUME NEW c \in Clerks, Tally(c) PROVE Goods'
  <2> DEFINE x == [step |-> "ship", order |-> call[c].order,
                   goods |-> call[c].goods, says |-> call[c].says,
                   status |-> Settles(c)]
  <2>1. call' = [call EXCEPT ![c] = x] /\ UNCHANGED <<delivered, shipped, order, chain>>
    BY <1>12 DEF Tally, Reads, books, Settles
  <2>2. Carries(call[c]) /\ chain = c
    BY <1>12 DEF Tally, Goods, Dispatches, Holding
  <2>3. Carries(x)
    BY <2>2 DEF Carries
  <2>4. x.order = call[c].order /\ x.goods = call[c].goods /\ x.says = call[c].says
        /\ x.status = Settles(c) /\ x.step = "ship"
    OBVIOUS
  <2> HIDE DEF x
  <2>5. call'[c] = x
    BY <1>1, <2>1
  <2>6. Settles(c)' = Settles(c)
    BY <2>1, <2>4, <2>5 DEF Settles, Written
  <2> QED
    BY <1>2, <2>1, <2>2, <2>3, <2>4, <2>5, <2>6
<1>13. CASE UNCHANGED vars
  <2>1. UNCHANGED <<delivered, shipped, order, call, chain>>
    BY <1>13 DEF vars, books
  <2>2. Dispatches'
    BY <2>1 DEF Goods, Dispatches, Carries, Settles, Written
  <2> QED
    BY <1>1, <2>1, <2>2, GoodsRest
<1> QED
  BY <1>4, <1>5, <1>6, <1>7, <1>8, <1>9, <1>10, <1>11, <1>12, <1>13, ShipKeeps DEF Next, Sell

LEMMA GoodsAlways ==
    Spec => []Goods
<1> QED
  BY GoodsInitially, GoodsNext, PTL DEF Spec

\* However many dispatches of the same lines overlap, what an order says was
\* delivered has left the shelf and is never more than was ordered.
THEOREM DeliveredLeft ==
    Spec => []DeliveredHasLeft
<1>1. Goods => DeliveredHasLeft
  BY DEF Goods
<1> QED
  BY <1>1, GoodsAlways, PTL

\* However dispatches and confirmations interleave, an order that says dispatched
\* has left in full, and one that says partly dispatched has something to ship.
THEOREM StatusIsTrue ==
    Spec => []StatusFollowsGoods
<1>1. Goods => StatusFollowsGoods
  BY DEF Goods
<1> QED
  BY <1>1, GoodsAlways, PTL

(***************************************************************************)
(* The money: what receipts write to the invoices.  A receipt adds to what *)
(* it saw received; it may have been overtaken, but never saw more than    *)
(* had been allocated by then, and nothing allocated is taken back.        *)
(***************************************************************************)
InvoiceRows == [gross : Nat, received : Nat, allocated : Nat, settled : BOOLEAN]

\* What a receipt holds: what it saw was allocated, and it saw no more than is due.
Receipt(x) ==
    /\ x.amount \in Nat
    /\ \A i \in x.open :
          /\ i \in DOMAIN invoices /\ x.seen[i] \in Nat
          /\ x.seen[i] <= invoices[i].allocated /\ x.seen[i] <= invoices[i].gross
Money ==
    /\ invoices \in Seq(InvoiceRows) /\ SettledIsPaid
    /\ \A i \in DOMAIN invoices : ~invoices[i].settled => invoices[i].received <= invoices[i].gross
    /\ \A c \in Clerks : call[c].step = "allocate" => Receipt(call[c])

LEMMA UnitsFinite ==
    ASSUME NEW D, IsFiniteSet(D), NEW f \in [D -> Int]
    PROVE  IsFiniteSet(Units(f))
<1> DEFINE T == {{x} \X (1 .. f[x]) : x \in D}
           g == [x \in D |-> {x} \X (1 .. f[x])]
<1>1. g \in Surjection(D, T)
  BY DEF Surjection
<1>2. IsFiniteSet(T)
  BY <1>1, FS_Surjection
<1>3. \A x \in D : IsFiniteSet({x}) /\ IsFiniteSet(1 .. f[x])
  BY FS_Singleton, FS_Interval
<1>4. \A x \in D : IsFiniteSet({x} \X (1 .. f[x]))
  <2> SUFFICES ASSUME NEW x \in D PROVE IsFiniteSet({x} \X (1 .. f[x]))
    OBVIOUS
  <2> QED
    BY <1>3, FS_Product
<1>7. \A t \in T : IsFiniteSet(t)
  BY <1>4
<1> HIDE DEF T
<1>5. IsFiniteSet(UNION T)
  BY <1>2, <1>7, FS_UNION
<1>6. DOMAIN f = D
  OBVIOUS
<1> QED
  BY <1>5, <1>6 DEF Units, T

\* What a dispatch carries is a number.
LEMMA LoadTyped ==
    ASSUME NEW c \in Clerks, Carries(call[c])
    PROVE  Load(c) \in Nat
<1>1. /\ IsFiniteSet(LinesOf(call[c].order))
      /\ call[c].goods \in [LinesOf(call[c].order) -> Int]
  <2>1. LinesOf(call[c].order) \in SUBSET Lines /\ IsFiniteSet(Lines)
    BY OrderAssumption DEF OrderAssumption, LinesOf
  <2> QED
    BY <2>1, FS_Subset DEF Carries
<1> QED
  BY <1>1, UnitsFinite, FS_CardinalityType DEF Load

LEMMA RowsTyped ==
    ASSUME NEW inv \in Seq(InvoiceRows), NEW i \in DOMAIN inv
    PROVE  /\ inv[i].gross \in Nat /\ inv[i].received \in Nat
           /\ inv[i].allocated \in Nat /\ inv[i].settled \in BOOLEAN
<1>1. inv[i] \in InvoiceRows
  OBVIOUS
<1> QED
  BY <1>1 DEF InvoiceRows

\* What a receipt makes of an invoice.
LEMMA RowCredited ==
    ASSUME NEW i \in DOMAIN invoices, invoices[i] \in InvoiceRows,
           NEW got \in Nat, NEW share \in Nat
    PROVE  /\ Credited(i, got, share) \in InvoiceRows
           /\ Credited(i, got, share).gross = invoices[i].gross
           /\ Credited(i, got, share).received = got
           /\ Credited(i, got, share).allocated = invoices[i].allocated + share
           /\ Credited(i, got, share).settled <=> got >= invoices[i].gross
<1>1. invoices[i].allocated + share \in Nat /\ invoices[i].gross \in Nat
  BY DEF InvoiceRows
<1>2. /\ Credited(i, got, share).gross = invoices[i].gross
      /\ Credited(i, got, share).received = got
      /\ Credited(i, got, share).allocated = invoices[i].allocated + share
  BY DEF Credited, InvoiceRows
<1>3. Credited(i, got, share).settled = (got >= invoices[i].gross)
  BY DEF Credited, InvoiceRows
<1>4. Credited(i, got, share).settled \in BOOLEAN
  BY <1>3
<1>5. Credited(i, got, share) \in InvoiceRows
  BY <1>1, <1>4 DEF Credited, InvoiceRows
<1> QED
  BY <1>2, <1>3, <1>5

LEMMA MoneyInitially ==
    Init => Money
<1> QED
  BY DEF Init, Money, Idle, SettledIsPaid

\* The invoices stay, and a call that changes holds what a receipt may hold.
LEMMA MoneyRest ==
    ASSUME Goods, Money, UNCHANGED invoices, NEW c \in Clerks, NEW x,
           call' = [call EXCEPT ![c] = x], x.step = "allocate" => Receipt(x)
    PROVE  Money'
<1>1. \A d \in Clerks : call'[d] = IF d = c THEN x ELSE call[d]
  BY DEF Goods, GoodsTyped
<1>2. \A d \in Clerks : call'[d].step = "allocate" => Receipt(call[d])'
  <2> SUFFICES ASSUME NEW d \in Clerks, call'[d].step = "allocate"
               PROVE  Receipt(call[d])'
    OBVIOUS
  <2>1. CASE d = c
    BY <1>1, <2>1 DEF Receipt
  <2>2. CASE d # c
    BY <1>1, <2>2 DEF Receipt, Money
  <2> QED
    BY <2>1, <2>2
<1> QED
  BY <1>2 DEF Money, SettledIsPaid

\* The invoices change, but of an old one only the money, and that only grows.
LEMMA MoneyGrows ==
    ASSUME Goods, Money, NEW c \in Clerks, call' = [call EXCEPT ![c] = Idle],
           invoices' \in Seq(InvoiceRows), SettledIsPaid',
           \A i \in DOMAIN invoices' :
               ~invoices'[i].settled => invoices'[i].received <= invoices'[i].gross,
           DOMAIN invoices \subseteq DOMAIN invoices',
           \A i \in DOMAIN invoices : /\ invoices'[i].gross = invoices[i].gross
                                      /\ invoices[i].allocated <= invoices'[i].allocated
    PROVE  Money'
<1>1. \A d \in Clerks : d # c => call'[d] = call[d]
  BY DEF Goods, GoodsTyped
<1>2. call'[c].step # "allocate"
  BY DEF Goods, GoodsTyped, Idle
<1>3. ASSUME NEW d \in Clerks, call'[d].step = "allocate" PROVE Receipt(call[d])'
  <2>1. d # c /\ call'[d] = call[d] /\ Receipt(call[d])
    BY <1>1, <1>2, <1>3 DEF Money
  <2>2. \A i \in DOMAIN invoices : /\ invoices[i].allocated \in Nat
                                    /\ invoices'[i].allocated \in Nat
    BY RowsTyped DEF Money
  <2> QED
    BY <2>1, <2>2 DEF Receipt
<1> QED
  BY <1>3 DEF Money

\* The invoice of a dispatch.
LEMMA ShipPays ==
    ASSUME Goods, Money, NEW c \in Clerks, Ship(c)
    PROVE  Money'
<1> DEFINE inv == [gross |-> Load(c), received |-> 0, allocated |-> 0, settled |-> FALSE]
<1>1. Carries(call[c])
  BY DEF Ship, Goods, Dispatches, Holding
<1>2. inv \in InvoiceRows
  BY <1>1, LoadTyped DEF InvoiceRows
<1>3. invoices' = Append(invoices, inv) /\ call' = [call EXCEPT ![c] = Idle]
  BY DEF Ship, Ends, Invoiced
<1>4. inv.received = 0 /\ inv.allocated = 0 /\ ~inv.settled /\ inv.gross \in Nat
  BY <1>2 DEF InvoiceRows
<1> HIDE DEF inv
<1>5. invoices \in Seq(InvoiceRows)
  BY DEF Money
<1>6. /\ invoices' \in Seq(InvoiceRows) /\ DOMAIN invoices \subseteq DOMAIN invoices'
      /\ \A i \in DOMAIN invoices : invoices'[i] = invoices[i]
      /\ \A i \in DOMAIN invoices' : i \in DOMAIN invoices \/ invoices'[i] = inv
  BY <1>2, <1>3, <1>5
<1>7. /\ SettledIsPaid'
      /\ \A i \in DOMAIN invoices' :
            ~invoices'[i].settled => invoices'[i].received <= invoices'[i].gross
  BY <1>4, <1>6 DEF Money, SettledIsPaid
<1>8. \A i \in DOMAIN invoices : invoices[i].allocated \in Nat
  BY <1>5, RowsTyped
<1>9. \A i \in DOMAIN invoices : /\ invoices'[i].gross = invoices[i].gross
                                 /\ invoices[i].allocated <= invoices'[i].allocated
  BY <1>6, <1>8
<1> QED
  BY <1>3, <1>6, <1>7, <1>9, MoneyGrows

\* The loop of a receipt, and the invoices it writes.
LEMMA AllocatePays ==
    ASSUME Goods, Money, NEW c \in Clerks, Allocate(c)
    PROVE  Money'
<1> DEFINE seen == call[c].seen
           open == call[c].open
<1>1. PICK left \in Leaves(call[c]) :
          invoices' = [i \in DOMAIN invoices |->
              LET share == Share(call[c], i, left[i]) IN
              IF share = 0 THEN invoices[i] ELSE Credited(i, seen[i] + share, share)]
  BY DEF Allocate
<1>2. invoices \in Seq(InvoiceRows) /\ Receipt(call[c]) /\ call' = [call EXCEPT ![c] = Idle]
  BY DEF Allocate, Money, Ends
<1> DEFINE sh(i) == Share(call[c], i, left[i])
<1>3. \A i \in DOMAIN invoices :
          /\ sh(i) \in Nat
          /\ sh(i) # 0 => /\ i \in open /\ seen[i] \in Nat
                          /\ seen[i] <= invoices[i].allocated /\ seen[i] <= invoices[i].gross
  <2> SUFFICES ASSUME NEW i \in DOMAIN invoices
               PROVE  /\ sh(i) \in Nat
                      /\ sh(i) # 0 => /\ i \in open /\ seen[i] \in Nat
                                      /\ seen[i] <= invoices[i].allocated
                                      /\ seen[i] <= invoices[i].gross
    OBVIOUS
  <2>1. left[i] \in Nat /\ invoices[i].gross \in Nat
    <3>1. i \in 1 .. Len(invoices) + 1 /\ left \in [1 .. Len(invoices) + 1 -> 0 .. call[c].amount]
      BY <1>1, <1>2 DEF Leaves
    <3> QED
      BY <1>2, <3>1, RowsTyped DEF Receipt
  <2>2. CASE i \in open
    BY <1>2, <2>1, <2>2 DEF Receipt, Share, Smaller
  <2>3. CASE i \notin open
    BY <2>3 DEF Share
  <2> QED
    BY <2>2, <2>3
<1>4. \A i \in DOMAIN invoices :
          invoices'[i] = IF sh(i) = 0 THEN invoices[i] ELSE Credited(i, seen[i] + sh(i), sh(i))
  BY <1>1
<1>5. \A i \in DOMAIN invoices : invoices[i] \in InvoiceRows
  BY <1>2
<1> HIDE DEF sh
<1>6. ASSUME NEW i \in DOMAIN invoices, sh(i) # 0
      PROVE  /\ invoices'[i] \in InvoiceRows
             /\ invoices'[i].gross = invoices[i].gross
             /\ invoices'[i].received = seen[i] + sh(i)
             /\ invoices'[i].allocated = invoices[i].allocated + sh(i)
             /\ invoices'[i].settled <=> seen[i] + sh(i) >= invoices[i].gross
  <2>1. invoices'[i] = Credited(i, seen[i] + sh(i), sh(i))
    BY <1>4, <1>6
  <2>2. seen[i] \in Nat /\ sh(i) \in Nat /\ invoices[i] \in InvoiceRows
    BY <1>3, <1>5, <1>6
  <2>3. seen[i] + sh(i) \in Nat
    BY <2>2
  <2> QED
    BY <2>1, <2>2, <2>3, RowCredited
<1>7. \A i \in DOMAIN invoices :
          /\ invoices'[i] \in InvoiceRows
          /\ invoices'[i].gross = invoices[i].gross
          /\ invoices[i].allocated <= invoices'[i].allocated
          /\ invoices'[i].received <= invoices'[i].allocated
          /\ invoices'[i].settled => invoices'[i].allocated >= invoices'[i].gross
          /\ ~invoices'[i].settled => invoices'[i].received <= invoices'[i].gross
  <2> SUFFICES ASSUME NEW i \in DOMAIN invoices
               PROVE  /\ invoices'[i] \in InvoiceRows
                      /\ invoices'[i].gross = invoices[i].gross
                      /\ invoices[i].allocated <= invoices'[i].allocated
                      /\ invoices'[i].received <= invoices'[i].allocated
                      /\ invoices'[i].settled => invoices'[i].allocated >= invoices'[i].gross
                      /\ ~invoices'[i].settled => invoices'[i].received <= invoices'[i].gross
    OBVIOUS
  <2>1. /\ invoices[i].gross \in Nat /\ invoices[i].allocated \in Nat
        /\ invoices[i].received \in Nat /\ invoices[i].received <= invoices[i].allocated
    BY RowsTyped DEF Money, SettledIsPaid
  <2>2. CASE sh(i) = 0
    BY <1>4, <1>5, <2>1, <2>2 DEF Money, SettledIsPaid
  <2>3. CASE sh(i) # 0
    <3>1. /\ sh(i) \in Nat /\ seen[i] \in Nat
          /\ seen[i] <= invoices[i].allocated /\ seen[i] <= invoices[i].gross
      BY <1>3, <2>3
    <3>2. seen[i] + sh(i) \in Nat /\ invoices[i].allocated + sh(i) \in Nat
      BY <2>1, <3>1
    <3> QED
      BY <1>6, <2>1, <2>3, <3>1, <3>2
  <2> QED
    BY <2>2, <2>3
<1>8. DOMAIN invoices' = DOMAIN invoices /\ invoices' \in Seq(InvoiceRows)
  <2>1. DOMAIN invoices' = DOMAIN invoices
    BY <1>1
  <2>2. Len(invoices) \in Nat /\ DOMAIN invoices = 1 .. Len(invoices)
    BY <1>2
  <2>3. invoices' \in [1 .. Len(invoices) -> InvoiceRows]
    BY <1>1, <1>7, <2>2
  <2> QED
    BY <2>1, <2>2, <2>3
<1>9. SettledIsPaid'
  BY <1>7, <1>8 DEF SettledIsPaid
<1> QED
  BY <1>2, <1>7, <1>8, <1>9, MoneyGrows

LEMMA MoneyNext ==
    Goods /\ Money /\ [Next]_vars => Money'
<1> SUFFICES ASSUME Goods, Money, [Next]_vars PROVE Money'
  OBVIOUS
<1>1. ASSUME NEW c \in Clerks, NEW o \in Orders, CreateOrder(c, o) PROVE Money'
  BY <1>1 DEF CreateOrder, Money, SettledIsPaid, Receipt
<1>2. ASSUME NEW c \in Clerks, UNCHANGED invoices,
             \E x : call' = [call EXCEPT ![c] = x] /\ x.step # "allocate"
      PROVE  Money'
  BY <1>2, MoneyRest
<1>3. ASSUME NEW c \in Clerks, NEW o \in Orders, NEW override \in BOOLEAN,
             ConfirmOrder(c, o, override) \/ DispatchOrder(c, o)
      PROVE  Money'
  BY <1>2, <1>3 DEF ConfirmOrder, DispatchOrder, Begin, books
<1>4. ASSUME NEW c \in Clerks, ReadOutstanding(c) \/ ReadCommitted(c) \/ Tally(c) PROVE Money'
  BY <1>2, <1>4 DEF ReadOutstanding, ReadCommitted, Tally, Reads, books
<1>5. ASSUME NEW c \in Clerks, Decide(c) \/ Rollback(c) PROVE Money'
  <2>1. call' = [call EXCEPT ![c] = Idle] /\ UNCHANGED invoices /\ Idle.step # "allocate"
    BY <1>5 DEF Decide, Rollback, Ends, books, Idle
  <2> HIDE DEF Idle
  <2> QED
    BY <1>2, <2>1
<1>6. ASSUME NEW c \in Clerks, ReadLines(c) PROVE Money'
  <2>1. PICK goods, says :
            Reads(c, [step |-> "post", order |-> call[c].order, goods |-> goods, says |-> says])
    BY <1>6 DEF ReadLines
  <2> QED
    <3>1. \A y : y = [step |-> "post", order |-> call[c].order, goods |-> goods,
                      says |-> says] => y.step # "allocate"
      OBVIOUS
    <3> QED
      BY <1>2, <2>1, <3>1 DEF Reads, books
<1>7. ASSUME NEW c \in Clerks, PostIssue(c) PROVE Money'
  <2> DEFINE x == [call[c] EXCEPT !.step = "tally"]
  <2>1. call' = [call EXCEPT ![c] = x] /\ UNCHANGED invoices
    BY <1>7 DEF PostIssue, books
  <2>2. "step" \in DOMAIN call[c]
    BY <1>7 DEF PostIssue, Goods, Dispatches, Carries
  <2>3. x.step # "allocate"
    BY <2>2
  <2> HIDE DEF x
  <2> QED
    BY <1>2, <2>1, <2>3
<1>8. ASSUME NEW c \in Clerks, NEW amount \in Amounts, RecordReceipt(c, amount) PROVE Money'
  <2> DEFINE x == [step |-> "allocate", amount |-> amount,
                   open |-> {i \in DOMAIN invoices : ~invoices[i].settled},
                   seen |-> [i \in DOMAIN invoices |-> invoices[i].received]]
  <2>1. call' = [call EXCEPT ![c] = x] /\ UNCHANGED invoices
    BY <1>8 DEF RecordReceipt, Begin, books
  <2>2. Receipt(x)
    <3>1. \A i \in DOMAIN invoices : invoices[i].received \in Nat
      BY RowsTyped DEF Money
    <3>2. x.amount \in Nat
      BY OrderAssumption DEF OrderAssumption
    <3> QED
      BY <3>1, <3>2 DEF Receipt, Money, SettledIsPaid
  <2> HIDE DEF x
  <2> QED
    BY <2>1, <2>2, MoneyRest
<1>9. CASE UNCHANGED vars
  BY <1>9 DEF vars, books, Money, SettledIsPaid, Receipt
<1> QED
  BY <1>1, <1>3, <1>4, <1>5, <1>6, <1>7, <1>8, <1>9, ShipPays, AllocatePays DEF Next, Sell

LEMMA MoneyAlways ==
    Spec => [](Goods /\ Money)
<1> QED
  BY GoodsInitially, GoodsNext, MoneyInitially, MoneyNext, PTL DEF Spec

\* However many receipts are allocated to the same invoices at once, no invoice
\* shows more received than was allocated to it, and a settled one was paid.
THEOREM SettledWasPaid ==
    Spec => []SettledIsPaid
<1>1. Money => SettledIsPaid
  BY DEF Money
<1> QED
  BY <1>1, MoneyAlways, PTL

(***************************************************************************)
(* The credit gate.                                                        *)
(***************************************************************************)
LEMMA OrderedFinite ==
    ASSUME NEW S, S \subseteq Orders
    PROVE  IsFiniteSet(Ordered(S)) /\ Cardinality(Ordered(S)) \in Nat
<1> DEFINE L == UNION {LinesOf(o) : o \in S}
<1>1. IsFiniteSet(L)
  <2>1. L \in SUBSET Lines /\ IsFiniteSet(Lines)
    BY OrderAssumption DEF OrderAssumption, LinesOf
  <2> HIDE DEF L
  <2> QED
    BY <2>1, FS_Subset
<1>2. [l \in L |-> Qty[l]] \in [L -> Int]
  BY LinesTyped DEF LinesOf
<1> HIDE DEF L
<1>3. IsFiniteSet(Units([l \in L |-> Qty[l]]))
  BY <1>1, <1>2, UnitsFinite
<1> QED
  BY <1>3, FS_CardinalityType DEF Ordered, L

\* One more order adds no more than its total.
LEMMA OrderAdds ==
    ASSUME NEW S, S \subseteq Orders, NEW o \in Orders, NEW T, T \subseteq S \cup {o}
    PROVE  Cardinality(Ordered(T)) <= Cardinality(Ordered(S)) + Total(o)
<1>1. \A u, R : u \in Ordered(R) <=>
          \E p \in R : \E l \in LinesOf(p) : u \in {l} \X (1 .. Qty[l])
  <2> SUFFICES ASSUME NEW u, NEW R
               PROVE  u \in Ordered(R) <=>
                         \E p \in R : \E l \in LinesOf(p) : u \in {l} \X (1 .. Qty[l])
    OBVIOUS
  <2> DEFINE L == UNION {LinesOf(p) : p \in R}
             f == [l \in L |-> Qty[l]]
  <2>1. u \in Units(f) <=> \E l \in L : u \in {l} \X (1 .. f[l])
    <3> HIDE DEF L
    <3> QED
      BY DEF Units
  <2>2. \A l \in L : f[l] = Qty[l]
    <3> HIDE DEF L
    <3> QED
      OBVIOUS
  <2>3. \A l : l \in L <=> \E p \in R : l \in LinesOf(p)
    OBVIOUS
  <2>4. Ordered(R) = Units(f)
    BY DEF Ordered
  <2> HIDE DEF L, f
  <2> QED
    BY <2>1, <2>2, <2>3, <2>4
<1>2. Ordered(T) \subseteq Ordered(S) \cup Ordered({o})
  BY <1>1
<1>3. /\ IsFiniteSet(Ordered(S)) /\ IsFiniteSet(Ordered({o}))
      /\ Cardinality(Ordered(S)) \in Nat /\ Cardinality(Ordered({o})) \in Nat
      /\ Cardinality(Ordered(T)) \in Nat
  BY OrderedFinite
<1>4. /\ IsFiniteSet(Ordered(S) \cup Ordered({o}))
      /\ Cardinality(Ordered(S) \cup Ordered({o}))
            = Cardinality(Ordered(S)) + Cardinality(Ordered({o}))
              - Cardinality(Ordered(S) \cap Ordered({o}))
  BY <1>3, FS_Union
<1>5. Cardinality(Ordered(S) \cap Ordered({o})) \in Nat
  BY <1>3, FS_Intersection, FS_CardinalityType
<1>6. Cardinality(Ordered(T)) <= Cardinality(Ordered(S) \cup Ordered({o}))
  BY <1>2, <1>4, FS_Subset
<1> QED
  BY <1>3, <1>4, <1>5, <1>6 DEF Total

LEMMA OutstandingTyped ==
    Money => Outstanding \in Nat
<1> SUFFICES ASSUME Money PROVE Outstanding \in Nat
  OBVIOUS
<1> DEFINE D == {j \in DOMAIN invoices : ~invoices[j].settled}
<1>1. IsFiniteSet(D)
  <2>1. Len(invoices) \in Nat /\ D \in SUBSET (1 .. Len(invoices))
    BY DEF Money
  <2>2. IsFiniteSet(1 .. Len(invoices))
    BY <2>1, FS_Interval
  <2> HIDE DEF D
  <2> QED
    BY <2>1, <2>2, FS_Subset
<1>2. [i \in D |-> Due(i)] \in [D -> Int]
  BY RowsTyped DEF Money, Due
<1> HIDE DEF D
<1>3. IsFiniteSet(Units([i \in D |-> Due(i)]))
  BY <1>1, <1>2, UnitsFinite
<1> QED
  BY <1>3, FS_CardinalityType DEF Outstanding, D

\* A confirmation that passes on figures that are still true.
LEMMA GateStep ==
    ASSUME Goods, Money, [Next]_vars, NEW c \in Clerks, call[c].step = "decide", Fresh(c),
           order' # order, call'[c].step = "idle", order'[call[c].order].credit = "passed"
    PROVE  Exposure' <= Limit
<1> DEFINE o == call[c].order
<1>1. /\ order' = [order EXCEPT ![o] = Verdict(call[c])] /\ UNCHANGED invoices
  <2>1. DOMAIN call = Clerks
    BY DEF Goods, GoodsTyped
  <2>2. ASSUME NEW d \in Clerks, NEW x, call' = [call EXCEPT ![d] = x] PROVE d = c
    BY <2>1, <2>2
  <2>3. PICK d \in Clerks : Decide(d) \/ Ship(d)
    <3>1. ASSUME UNCHANGED order PROVE FALSE
      BY <3>1
    <3>2. ~ UNCHANGED vars
      BY <3>1 DEF vars, books
    <3>3. \A d \in Clerks, p \in Orders : ~CreateOrder(d, p)
      BY DEF CreateOrder
    <3> QED
      BY <3>1, <3>2, <3>3 DEF Next, Sell, ConfirmOrder, DispatchOrder, Begin, ReadOutstanding,
         ReadCommitted, ReadLines, Tally, Reads, PostIssue, RecordReceipt, Allocate, Rollback,
         books
  <2>4. d = c
    BY <2>2, <2>3 DEF Decide, Ship, Ends
  <2> QED
    BY <2>3, <2>4 DEF Decide, Ship
<1>2. o \in Orders /\ order'[o] = Verdict(call[c])
  BY <1>1 DEF Goods, GoodsTyped
<1>3. Outstanding + Committed(Orders \ {o}) + Total(o) <= Limit
  BY <1>2 DEF Verdict, Fresh
<1>4. Outstanding' = Outstanding
  BY <1>1 DEF Outstanding, Due
<1>5. Committed(Orders)' <= Committed(Orders \ {o}) + Total(o)
  <2> DEFINE S == {p \in Orders \ {o} : order[p].status \in Open}
             T == {p \in Orders : order'[p].status \in Open}
  <2>1. S \subseteq Orders /\ T \subseteq S \cup {o}
    BY <1>1 DEF Goods, GoodsTyped
  <2> HIDE DEF S, T
  <2>2. Cardinality(Ordered(T)) <= Cardinality(Ordered(S)) + Total(o)
    BY <1>2, <2>1, OrderAdds
  <2> QED
    BY <2>2 DEF S, T, Committed, Ordered
<1>6. /\ Outstanding \in Nat /\ Committed(Orders \ {o}) \in Nat
      /\ Committed(Orders)' \in Nat /\ Total(o) \in Nat
  <2>1. {o} \subseteq Orders
    BY <1>2
  <2>2. Committed(Orders)' \in Nat /\ Committed(Orders \ {o}) \in Nat
    BY OrderedFinite DEF Committed, Ordered
  <2> QED
    BY <2>1, <2>2, OrderedFinite, OutstandingTyped DEF Total
<1>7. Limit \in Nat
  BY OrderAssumption DEF OrderAssumption
<1> QED
  BY <1>3, <1>4, <1>5, <1>6, <1>7 DEF Exposure

\* The gate holds on figures that are still true: whoever else confirms, ships or
\* pays, an order it passes leaves the customer within the limit.
THEOREM GateKeepsLimit ==
    Spec => GateHolds
<1>1. ASSUME Goods, Money, [Next]_vars
      PROVE  [\A c \in Clerks :
                 (call[c].step = "decide" /\ Fresh(c) /\ order' # order
                    /\ call'[c].step = "idle" /\ order'[call[c].order].credit = "passed")
                 => Exposure' <= Limit]_vars
  BY <1>1, GateStep
<1> QED
  BY <1>1, MoneyAlways, PTL DEF Spec, GateHolds

(***************************************************************************)
(* The shelf: a dispatch holds the lock of the chain from the moment it    *)
(* has seen that the shelf covers what it carries.                         *)
(***************************************************************************)
Shelved ==
    /\ shelf \in 0 .. Stock /\ chain \in Clerks \cup {None} /\ calls \in 0 .. MaxCalls
    /\ \A c \in Clerks : call[c].step \in Holding => Load(c) <= shelf

LEMMA ShelvedInitially ==
    Init => Shelved
<1> QED
  BY OrderAssumption DEF OrderAssumption, Init, Shelved, Idle, Holding

\* The shelf stays, and a call that changes carries no more than is there.
LEMMA ShelvedRest ==
    ASSUME Goods, Shelved, UNCHANGED shelf, chain' \in Clerks \cup {None},
           calls' \in 0 .. MaxCalls, NEW c \in Clerks, NEW x,
           call' = [call EXCEPT ![c] = x], x.step \in Holding => Load(c)' <= shelf
    PROVE  Shelved'
<1>1. \A d \in Clerks : call'[d] = IF d = c THEN x ELSE call[d]
  BY DEF Goods, GoodsTyped
<1>2. \A d \in Clerks : d # c => Load(d)' = Load(d)
  BY <1>1 DEF Load
<1> QED
  BY <1>1, <1>2 DEF Shelved

LEMMA ShelvedNext ==
    Goods /\ Shelved /\ [Next]_vars => Shelved'
<1> SUFFICES ASSUME Goods, Shelved, [Next]_vars PROVE Shelved'
  OBVIOUS
<1>1. /\ MaxCalls \in Nat /\ Stock \in Nat
      /\ chain \in Clerks \cup {None} /\ calls \in 0 .. MaxCalls
  BY OrderAssumption DEF OrderAssumption, Shelved
<1>2. ASSUME NEW c \in Clerks, UNCHANGED <<shelf, chain>>, calls' \in 0 .. MaxCalls,
             \E x : call' = [call EXCEPT ![c] = x] /\ x.step \notin Holding
      PROVE  Shelved'
  BY <1>1, <1>2, ShelvedRest
<1>3. ASSUME NEW c \in Clerks, NEW o \in Orders, CreateOrder(c, o) PROVE Shelved'
  BY <1>1, <1>3 DEF CreateOrder, Shelved, Load
<1>4. ASSUME NEW c \in Clerks, NEW x, Begin(c, x), x.step \notin Holding PROVE Shelved'
  <2>1. calls' \in 0 .. MaxCalls /\ UNCHANGED <<shelf, chain>>
        /\ call' = [call EXCEPT ![c] = x]
    BY <1>1, <1>4 DEF Begin, books
  <2> QED
    BY <1>2, <1>4, <2>1
<1>5. ASSUME NEW c \in Clerks, NEW o \in Orders, NEW override \in BOOLEAN,
             ConfirmOrder(c, o, override) \/ DispatchOrder(c, o)
      PROVE  Shelved'
  <2>1. \A x : \/ x = [step |-> "outstanding", order |-> o, override |-> override]
               \/ x = [step |-> "lines", order |-> o]
               => x.step \notin Holding
    BY DEF Holding
  <2> QED
    BY <1>4, <1>5, <2>1 DEF ConfirmOrder, DispatchOrder
<1>6. ASSUME NEW c \in Clerks, NEW amount \in Amounts, RecordReceipt(c, amount) PROVE Shelved'
  <2> DEFINE x == [step |-> "allocate", amount |-> amount,
                   open |-> {i \in DOMAIN invoices : ~invoices[i].settled},
                   seen |-> [i \in DOMAIN invoices |-> invoices[i].received]]
  <2>1. Begin(c, x) /\ x.step \notin Holding
    BY <1>6 DEF RecordReceipt, Holding
  <2> HIDE DEF x
  <2> QED
    BY <1>4, <2>1
<1>7. ASSUME NEW c \in Clerks, NEW x, Reads(c, x), x.step \notin Holding PROVE Shelved'
  BY <1>1, <1>2, <1>7 DEF Reads, books
<1>8. ASSUME NEW c \in Clerks, ReadOutstanding(c) \/ ReadCommitted(c) PROVE Shelved'
  <2>1. \A x : x.step \in {"committed", "decide"} => x.step \notin Holding
    BY DEF Holding
  <2> QED
    BY <1>7, <1>8, <2>1 DEF ReadOutstanding, ReadCommitted
<1>9. ASSUME NEW c \in Clerks, ReadLines(c) PROVE Shelved'
  <2>1. PICK goods, says :
            Reads(c, [step |-> "post", order |-> call[c].order, goods |-> goods, says |-> says])
    BY <1>9 DEF ReadLines
  <2>2. \A x : x = [step |-> "post", order |-> call[c].order, goods |-> goods, says |-> says]
              => x.step \notin Holding
    BY DEF Holding
  <2> QED
    BY <1>7, <2>1, <2>2
<1>10. ASSUME NEW c \in Clerks, Decide(c) \/ Allocate(c) \/ Rollback(c) PROVE Shelved'
  <2>1. /\ call' = [call EXCEPT ![c] = Idle] /\ UNCHANGED <<shelf, calls>>
        /\ chain' \in Clerks \cup {None}
    BY <1>1, <1>10 DEF Decide, Allocate, Rollback, Ends, books
  <2>2. Idle.step \notin Holding
    BY DEF Idle, Holding
  <2> HIDE DEF Idle
  <2> QED
    BY <1>1, <2>1, <2>2, ShelvedRest
<1>11. ASSUME NEW c \in Clerks, PostIssue(c) PROVE Shelved'
  <2> DEFINE x == [call[c] EXCEPT !.step = "tally"]
  <2>1. /\ call' = [call EXCEPT ![c] = x] /\ chain' = c /\ UNCHANGED <<shelf, calls>>
        /\ Load(c) <= shelf
    BY <1>11 DEF PostIssue, books
  <2>2. call'[c].goods = call[c].goods
    BY <2>1 DEF Goods, GoodsTyped
  <2>3. Load(c)' = Load(c)
    BY <2>2 DEF Load
  <2> HIDE DEF x
  <2> QED
    BY <1>1, <2>1, <2>3, ShelvedRest
<1>12. ASSUME NEW c \in Clerks, Tally(c) PROVE Shelved'
  <2> DEFINE x == [step |-> "ship", order |-> call[c].order,
                   goods |-> call[c].goods, says |-> call[c].says,
                   status |-> Settles(c)]
  <2>1. call' = [call EXCEPT ![c] = x] /\ UNCHANGED <<shelf, chain, calls>>
    BY <1>12 DEF Tally, Reads, books, Settles
  <2>2. call'[c].goods = call[c].goods
    BY <2>1 DEF Goods, GoodsTyped
  <2>3. Load(c)' = Load(c) /\ Load(c) <= shelf
    BY <1>12, <2>2 DEF Load, Tally, Shelved, Holding
  <2> HIDE DEF x
  <2> QED
    BY <1>1, <2>1, <2>3, ShelvedRest
<1>13. ASSUME NEW c \in Clerks, Ship(c) PROVE Shelved'
  <2>1. Carries(call[c]) /\ Load(c) <= shelf
        /\ \A d \in Clerks : d # c => call[d].step \notin Holding
    BY <1>13 DEF Ship, Goods, Dispatches, Holding, Shelved
  <2>2. Load(c) \in Nat
    BY <2>1, LoadTyped
  <2>3. /\ shelf' = shelf - Load(c) /\ call' = [call EXCEPT ![c] = Idle] /\ UNCHANGED calls
        /\ chain' \in Clerks \cup {None}
    BY <1>1, <1>13 DEF Ship, Ends
  <2>4. \A d \in Clerks : call'[d].step \notin Holding
    BY <2>1, <2>3 DEF Goods, GoodsTyped, Idle, Holding
  <2>5. shelf' \in 0 .. Stock
    BY <1>1, <2>1, <2>2, <2>3 DEF Shelved
  <2> QED
    BY <1>1, <2>3, <2>4, <2>5 DEF Shelved
<1>14. CASE UNCHANGED vars
  BY <1>14 DEF vars, books, Shelved, Load
<1> QED
  BY <1>3, <1>5, <1>6, <1>8, <1>9, <1>10, <1>11, <1>12, <1>13, <1>14 DEF Next, Sell

\* The books are of their types, and the shelf is never overdrawn, although no
\* dispatch locks it: the lock of the chain does.
THEOREM BooksTyped ==
    Spec => []TypeOK
<1>1. Goods /\ Money /\ Shelved => TypeOK
  BY DEF Goods, GoodsTyped, OrderRows, Money, InvoiceRows, Shelved, TypeOK
<1>2. Spec => []Shelved
  BY ShelvedInitially, ShelvedNext, GoodsAlways, PTL DEF Spec
<1> QED
  BY <1>1, <1>2, MoneyAlways, PTL
=============================================================================
