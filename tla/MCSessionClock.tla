--------------------------- MODULE MCSessionClock ---------------------------
(* Instances of SessionClock for TLC. *)
EXTENDS SessionClock

CONSTANTS study, detox

=============================================================================
