---------------------------- MODULE EventPromise ----------------------------
(***************************************************************************)
(* What the event bus promises a module that stages an event with its      *)
(* write: the event has its effect on a subscriber at most once, and never *)
(* without the write.                                                      *)
(***************************************************************************)
CONSTANT Events

VARIABLES
    written,    \* the events whose domain write has committed
    handled     \* handled[e]: how often the event had its effect

promiseVars == <<written, handled>>

PromiseInit == written = {} /\ handled = [e \in Events |-> 0]

Write(e) ==
    /\ e \notin written
    /\ written' = written \cup {e}
    /\ UNCHANGED handled

Handle(e) ==
    /\ e \in written /\ handled[e] = 0
    /\ handled' = [handled EXCEPT ![e] = 1]
    /\ UNCHANGED written

PromiseNext == \E e \in Events : Write(e) \/ Handle(e)
PromiseSpec == PromiseInit /\ [][PromiseNext]_promiseVars
=============================================================================
