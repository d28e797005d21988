------------------------ MODULE MCConditionalSession ------------------------
(***************************************************************************)
(* Instances of ConditionalSession for TLC.                                *)
(***************************************************************************)
EXTENDS ConditionalSession
=============================================================================
