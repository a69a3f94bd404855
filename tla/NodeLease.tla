----------------------------- MODULE NodeLease -----------------------------
(***************************************************************************)
(* What src/src/agent/node-manager.ts promises a campaign: a node is leased *)
(* to one job at a time, and only the job itself gives it back while it    *)
(* works on it.  A job may end without returning its node; such a node can *)
(* be reclaimed.                                                           *)
(***************************************************************************)
CONSTANTS Job, Node, None
VARIABLES owner,    \* the job a node is recorded for
          active    \* the node a job works on

vars == <<owner, active>>

Init ==
    /\ owner = [n \in Node |-> None]
    /\ active = [t \in Job |-> None]

Grant(t, n) ==
    /\ active[t] = None /\ owner[n] = None
    /\ owner' = [owner EXCEPT ![n] = t]
    /\ active' = [active EXCEPT ![t] = n]

Return(t) ==
    /\ active[t] # None
    /\ owner' = [owner EXCEPT ![active[t]] = None]
    /\ active' = [active EXCEPT ![t] = None]

Abandon(t) ==
    /\ active[t] # None
    /\ active' = [active EXCEPT ![t] = None]
    /\ UNCHANGED owner

Reclaim(n) ==
    /\ owner[n] # None /\ \A t \in Job : active[t] # n
    /\ owner' = [owner EXCEPT ![n] = None]
    /\ UNCHANGED active

\* The process dies and starts again: no job is at work, and owners stay.
Restart ==
    /\ active' = [t \in Job |-> None]
    /\ UNCHANGED owner

Next ==
    \/ \E t \in Job : Return(t) \/ Abandon(t) \/ \E n \in Node : Grant(t, n)
    \/ \E n \in Node : Reclaim(n)
    \/ Restart

Spec == Init /\ [][Next]_vars

=============================================================================
