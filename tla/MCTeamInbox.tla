---------------------------- MODULE MCTeamInbox ----------------------------
(* An instance of TeamInbox for model checking. *)
EXTENDS TeamInbox, TLC

CONSTANTS prepare, render, audit, w1, w2

Steps == {prepare, render, audit}
\* audit needs both, as campaign.audit needs all that is published
Chain == prepare :> {} @@ render :> {prepare} @@ audit :> {prepare, render}
Workers == {w1, w2}

\* Workers are interchangeable.
Symmetry == Permutations(Workers)

=============================================================================
