----------------------------- MODULE MCGovernance -----------------------------
(***************************************************************************)
(* Instances of Governance for TLC.                                        *)
(***************************************************************************)
EXTENDS Governance

CONSTANTS voter, other

People == {voter, other}
OnlyOther == {other}

\* One second of delay, vote and timelock; six in ten of the supply,
\* half the votes: one of two equal voters is no quorum.
Linear ==
    [timelock_delay |-> 1, voting_period |-> 1, voting_delay |-> 0, quorum_bps |-> 6000,
     pass_threshold_bps |-> 5000, proposal_deposit |-> 1, use_quadratic |-> FALSE,
     guardian_threshold |-> 1]
\* Quadratic votes, no timelock, no quorum, no guardian's approval needed.
Quadratic ==
    [Linear EXCEPT !.timelock_delay = 0, !.quorum_bps = 0, !.pass_threshold_bps = 1,
                   !.use_quadratic = TRUE, !.guardian_threshold = 0]

OnlyQuadratic == {Quadratic}
=============================================================================
