-------------------------- MODULE MCResourceEditor --------------------------
(***************************************************************************)
(* TLC instances of ResourceEditor: quantities 1, 2 and 4, of which 1 is   *)
(* not a whole unit and is rounded up to 2.                                *)
(***************************************************************************)
EXTENDS ResourceEditor
=============================================================================
