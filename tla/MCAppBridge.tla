----------------------------- MODULE MCAppBridge -----------------------------
(* Small instances of AppBridge. *)
EXTENDS AppBridge, TLC

CONSTANTS here, there

MCTargets == {here, there}
OneTarget == {here}

\* Targets are only compared with one another.
TargetSymmetry == Permutations(MCTargets)
=============================================================================
