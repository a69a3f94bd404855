----------------------------- MODULE MCPipeline -----------------------------
(* An instance of Pipeline for model checking. *)
EXTENDS Pipeline

CONSTANTS p1

\* dispatch is left out: its worker does what radar's does.
Queues == {"radar", "forge", "harvest"}
Route == [q \in {"radar", "forge"} |-> IF q = "radar" THEN "forge" ELSE "harvest"]

\* Its copies compete for the budget as the jobs of other probes do.
OneProbe == {p1}

=============================================================================
