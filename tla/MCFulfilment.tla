---------------------------- MODULE MCFulfilment ----------------------------
(***************************************************************************)
(* Two calls, two strategies and two vendors, of which the delay concerns  *)
(* one.                                                                    *)
(***************************************************************************)
EXTENDS Fulfilment
CONSTANTS c1, c2, cheap, quick, near, far
Investigation == <<"engineering", "sourcing">>
\* The quick strategy buys from both vendors and is outside what A3 may commit.
Bought == (cheap :> {near}) @@ (quick :> {near, far})
Asks == (cheap :> {"A2"}) @@ (quick :> {"A2", "A3"})
\* Bound: three of the four troubles (a second call, a retry, a change, a crash).
ThreeTroubles == clicks + retried + changes + crashes <= 3
Interchangeable == Permutations({c1, c2})
=============================================================================
