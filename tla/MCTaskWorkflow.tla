---------------------------- MODULE MCTaskWorkflow ----------------------------
(* Instances of TaskWorkflow for TLC: an operator's and a commander's      *)
(* request, and one asset.                                                 *)
EXTENDS TaskWorkflow

CONSTANTS op, co1, a1
=============================================================================
