----------------------------- MODULE OncePerKey -----------------------------
(***************************************************************************)
(* What an Idempotency-Key promises its callers: of all the requests that  *)
(* carry a key at most one takes effect, and whoever is told the outcome   *)
(* is told the outcome of that one, asked for in the same words.           *)
(***************************************************************************)
CONSTANTS Requests, Key, Body

VARIABLES
    effects,    \* the requests whose work took effect
    told        \* told[r]: the request whose outcome r was given, or a refusal

promiseVars == <<effects, told>>

\* Answers that promise nothing.
Refusals == {"mismatch", "in_progress", "error"}

OnceInit == effects = {} /\ told = [r \in Requests |-> "nothing"]

TakeEffect(r) ==
    /\ told[r] = "nothing"
    /\ \A s \in effects : Key[s] # Key[r]
    /\ effects' = effects \cup {r}
    /\ UNCHANGED told

Tell(r) ==
    /\ told[r] = "nothing"
    /\ \/ \E s \in effects : Key[s] = Key[r] /\ Body[s] = Body[r]
                               /\ told' = [told EXCEPT ![r] = s]
       \/ \E x \in Refusals : told' = [told EXCEPT ![r] = x]
    /\ UNCHANGED effects

OnceNext == \E r \in Requests : TakeEffect(r) \/ Tell(r)
OnceSpec == OnceInit /\ [][OnceNext]_promiseVars
=============================================================================
