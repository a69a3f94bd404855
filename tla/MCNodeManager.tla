--------------------------- MODULE MCNodeManager ---------------------------
(* Instances of NodeManager for model checking. *)
EXTENDS NodeManager, TLC

CONSTANTS j1, j2, n1, n2, n3, s1

OneJob == {j1}
TwoJobs == {j1, j2}
OneNode == {n1}
ThreeNodes == {n1, n2, n3}
OneSlot == {s1}

\* Expiring locks, crashes, unlocked writers and terminations, all at once.
Turmoil == {"terminate", "health", "alarm", "sync", "ttl", "crash"}
\* Nothing writes a record outside the lock but the job that holds the node, and
\* tasks end before the idle threshold.
LockedOnly == {"sweep", "spawn", "slotExpiry"}
JobsAndHealth == {"health"}

OkOrUnhealthy == {"ok", "unhealthy"}

=============================================================================
