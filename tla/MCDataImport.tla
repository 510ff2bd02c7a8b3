---------------------------- MODULE MCDataImport ----------------------------
(***************************************************************************)
(* A file of two orders, one with two lines.                               *)
(***************************************************************************)
EXTENDS DataImport, TLC

CONSTANTS i1, i2, c1, c2, c3

MCImporters == {i1, i2}
MCCalls == {c1, c2, c3}
MCRows == {2, 3, 4}
MCDocument == [r \in MCRows |-> IF r = 4 THEN "B" ELSE "A"]
MCPoNumber == [r \in MCRows |-> IF r = 4 THEN "PO-2" ELSE "PO-1"]
MCHeader == [r \in MCRows |-> "same"]
MCTargets == {"sales_orders", "stock_opening", "customers", "items"}
Symmetric == Permutations(MCImporters) \cup Permutations(MCCalls)
=============================================================================
