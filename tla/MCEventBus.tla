---------------------------- MODULE MCEventBus ------------------------------
(***************************************************************************)
(* Instances of EventBus: a worker and a serverless drain, two job slots.  *)
(***************************************************************************)
EXTENDS EventBus

TwoEvents == 1..2
=============================================================================
