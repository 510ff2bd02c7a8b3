--------------------------- MODULE MCStockLedger -----------------------------
(***************************************************************************)
(* Instances of StockLedger: two shelves, two lots.                        *)
(***************************************************************************)
EXTENDS StockLedger

Line(from, to, lot, qty) == [from |-> from, to |-> to, lot |-> lot, qty |-> qty]

TwoLots == {1, 2}
SomeStock == [r \in {"stores", "wip"} \X TwoLots |-> IF r[1] = "stores" THEN 2 ELSE 1]

\* Transfers in opposite directions, one of them of two lines, an issue of a
\* nominated lot and a receipt of two lines, at the limit of the stock.
Crossing ==
    [out  |-> <<Line("stores", "wip", Absent, 3)>>,
     back |-> <<Line("wip", "stores", Absent, 2), Line("wip", "stores", 2, 1)>>,
     lot  |-> <<Line("stores", Absent, 2, 2)>>,
     in   |-> <<Line(Absent, "stores", 2, 1), Line(Absent, "wip", 1, 1)>>]

=============================================================================
