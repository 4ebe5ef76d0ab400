------------------------------ MODULE MCTransfer ------------------------------
(***************************************************************************)
(* Instances of TransferStateMachine for TLC.                              *)
(***************************************************************************)
EXTENDS TransferStateMachine

CONSTANTS admin, initiator, bridge

People == {admin, initiator, bridge}

\* Every live state is given one second.
OneSecond == [state \in Live |-> 1]
=============================================================================
