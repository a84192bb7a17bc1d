---------------------------- MODULE MCPageServer ----------------------------
(* Instances of PageServer for TLC. *)
EXTENDS PageServer

=============================================================================
