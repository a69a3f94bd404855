---------------------------- MODULE MCEdgeOutbox ----------------------------
(* An instance of EdgeOutbox for model checking. *)
EXTENDS EdgeOutbox, TLC

CONSTANTS m1, m2, e1, e2

TwoMsgs == {m1, m2}
TwoEdges == {e1, e2}
BothModes == {"poll", "push"}

=============================================================================
