----------------------------- MODULE MCVoiceTurn -----------------------------
(***************************************************************************)
(* VoiceTurn on small instances.                                           *)
(***************************************************************************)
EXTENDS VoiceTurn
==============================================================================
