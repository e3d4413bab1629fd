------------------------- MODULE MCUpdateTransaction -------------------------
(* A release that replaces, leaves alone, adds and removes a file. *)
EXTENDS UpdateTransaction

MCPlan == <<"replaced", "added", "obsolete", "unchanged">>
=============================================================================
