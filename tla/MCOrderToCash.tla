--------------------------- MODULE MCOrderToCash ---------------------------
(***************************************************************************)
(* Two clerks and a customer with an order of two lines and one of a       *)
(* single line.                                                            *)
(***************************************************************************)
EXTENDS OrderToCash, TLC

CONSTANTS first, second, a, b, c, ann, bob

TwoOrders == {first, second}
ThreeLines == {a, b, c}
Belongs == a :> first @@ b :> first @@ c :> second
Quantity == a :> 2 @@ b :> 1 @@ c :> 1
Numbers == first :> "PO-1" @@ second :> "PO-2"

Pair == {ann, bob}
Same == Permutations(Pair)
=============================================================================
