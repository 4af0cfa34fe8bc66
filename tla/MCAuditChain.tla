---------------------------- MODULE MCAuditChain ----------------------------
(* Instances of AuditChain for TLC: two entities of one organisation and   *)
(* one of another, so that transactions can lock rows and chains in        *)
(* opposite orders, and a user audited after its own COMMIT.               *)
EXTENDS AuditChain, TLC

CONSTANTS w1, w2, w3, siteA, taskA, siteB, user, orgA, orgB

(* No writer is named in the model: states that differ by a renaming of    *)
(* writers have the same futures.                                          *)
WriterSymmetry == Permutations(Writers)

MCChainOf ==
  [ e \in Entities |-> IF e = siteB THEN orgB ELSE orgA ]
=============================================================================
