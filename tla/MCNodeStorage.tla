--------------------------- MODULE MCNodeStorage ---------------------------
(* A task buffer of five elements is full with three tasks. *)
EXTENDS NodeStorage
=============================================================================
