-------------------------- MODULE MCAccessSessions --------------------------
(***************************************************************************)
(* AccessSessions with model values.                                       *)
(***************************************************************************)
EXTENDS AccessSessions, TLC

=============================================================================
