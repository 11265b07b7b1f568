------------------------- MODULE MCLeasedDispatcher -------------------------
(* Two tasks for one endpoint. *)
EXTENDS LeasedDispatcher
=============================================================================
