---------------------------- MODULE MCWithCmdqd ----------------------------
(* The values of the constants are those of the .cfg. *)
EXTENDS WithCmdqdProperties
=============================================================================
