-------------------------- MODULE MCWorkflowEngine --------------------------
(* Instances of WorkflowEngine for model checking. *)
EXTENDS WorkflowEngine, TLC

CONSTANTS r1, r2

OneRun == {r1}
TwoRuns == {r1, r2}

\* Run ids are interchangeable; not for liveness.
Symmetry == Permutations(TwoRuns)

=============================================================================
