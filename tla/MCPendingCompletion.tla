------------------------- MODULE MCPendingCompletion -------------------------
(* Every shape of a submission: the model has no constants.                *)
EXTENDS PendingCompletion
==============================================================================
