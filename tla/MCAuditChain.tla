---------------------------- MODULE MCAuditChain -----------------------------
(***************************************************************************)
(* Instances of AuditChain: transactions of one and of two rows.           *)
(***************************************************************************)
EXTENDS AuditChain

OneOrTwo == [w \in Writers |-> IF w = "post" THEN 2 ELSE 1]
=============================================================================
