------------------------------ MODULE Courier ------------------------------
(***************************************************************************)
(* What dragon-senate-saas-v2/edge_outbox.py promises whoever hands it a    *)
(* message: the message is owed to its edge until it is acknowledged, which *)
(* takes that it reached the edge, or written off.  An acknowledged message *)
(* stays so.  Copies may arrive at any time once the message is accepted,   *)
(* and a written-off message may still be acknowledged by a late edge.      *)
(***************************************************************************)
CONSTANT Msg
VARIABLES phase,    \* what the sender is told of each message
          reached   \* messages of which a copy has reached the edge

vars == <<phase, reached>>

Init ==
    /\ phase = [m \in Msg |-> "new"]
    /\ reached = {}

Accept(m) ==
    /\ phase[m] = "new"
    /\ phase' = [phase EXCEPT ![m] = "owed"]
    /\ UNCHANGED reached

Reach(S) ==
    /\ \A m \in S : phase[m] # "new"
    /\ reached' = reached \cup S
    /\ UNCHANGED phase

Acknowledge(S) ==
    /\ S \subseteq reached
    /\ phase' = [m \in Msg |-> IF m \in S THEN "acknowledged" ELSE phase[m]]
    /\ UNCHANGED reached

WriteOff(S) ==
    /\ \A m \in S : phase[m] = "owed"
    /\ phase' = [m \in Msg |-> IF m \in S THEN "written_off" ELSE phase[m]]
    /\ UNCHANGED reached

Next ==
    \/ \E m \in Msg : Accept(m)
    \/ \E S \in SUBSET Msg : Reach(S) \/ Acknowledge(S) \/ WriteOff(S)

Spec == Init /\ [][Next]_vars

=============================================================================
