-------------------------- MODULE MCHealthMonitor --------------------------
(* Instances of HealthMonitor for model checking. *)
EXTENDS HealthMonitor, TLC

CONSTANTS n1, n2

TwoNodes == {n1, n2}
Symmetric == Permutations({n1, n2})

=============================================================================
