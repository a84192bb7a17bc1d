------------------------------ MODULE MCEngine ------------------------------
(* Instances of Engine for TLC: the constants a .cfg cannot write, and the     *)
(* engine whose warm-up has finished.                                          *)
EXTENDS EngineFocus, TLC

CONSTANTS c1, c2, study, detox, site1, site2

OneRule     == site1 :> study
OneRuleEach == site1 :> study @@ site2 :> detox

TwoClients == Permutations({c1, c2})

\* A service that was started some time ago: warm_protection has returned.
SettledInit == InitWith("idle")

SettledSpec == SettledInit /\ [][Next]_vars

=============================================================================
