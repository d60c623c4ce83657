----------------------------- MODULE MCItemTasks -----------------------------
(***************************************************************************)
(* ItemTasks on small instances.                                           *)
(***************************************************************************)
EXTENDS ItemTasks
=============================================================================
