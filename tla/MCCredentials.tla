---------------------------- MODULE MCCredentials ----------------------------
(***************************************************************************)
(* Credentials with model values; requests of a kind are alike.            *)
(***************************************************************************)
EXTENDS Credentials, TLC

Symmetric == Permutations(Handlers)

=============================================================================
