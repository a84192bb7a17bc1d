------------------------------ MODULE MCUiCubit ------------------------------
(* Instances of UiCubit for TLC. *)
EXTENDS UiCubit

CONSTANTS p1, p2

=============================================================================
