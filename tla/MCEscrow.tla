------------------------------- MODULE MCEscrow -------------------------------
(***************************************************************************)
(* Instances of Escrow for TLC.                                            *)
(***************************************************************************)
EXTENDS Escrow

CONSTANTS admin, depositor, recipient, verifier, p1, p2, p3

Deal == [depositor |-> depositor, recipient |-> recipient,
         verification_contract |-> verifier]

OneDeal == {Deal}

FewAddresses == {admin, depositor, recipient, verifier, p1}
PanelAddresses == {admin, depositor, recipient, verifier, p1, p2, p3}

OneGuardian == {p1}
OneCollector == {admin}

OneApprover == {<<p1>>}

\* A panel of three, and one that lists an approver twice.
Panels == {<<p1, p2, p3>>, <<p2, p2>>}
=============================================================================
