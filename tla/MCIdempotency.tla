---------------------------- MODULE MCIdempotency ---------------------------
(***************************************************************************)
(* Four requests: an order, its retry, and another body under the same     *)
(* key, and a request with a key of its own, whose work may throw although *)
(* it has committed.                                                       *)
(***************************************************************************)
EXTENDS Idempotency, TLC

CONSTANTS order, retry, other, alone, k1, k2, p1, p2

MCRequests == {order, retry, other, alone}
MCKeys == {k1, k2}
MCKey == alone :> k2 @@ [r \in MCRequests |-> k1]
MCSlippery == {alone}
MCBody == other :> p2 @@ [r \in MCRequests |-> p1]
=============================================================================
