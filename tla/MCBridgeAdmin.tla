----------------------------- MODULE MCBridgeAdmin -----------------------------
(***************************************************************************)
(* Instances of BridgeAdmin for TLC.                                       *)
(***************************************************************************)
EXTENDS BridgeAdmin, TLC

CONSTANTS alice, bob, carol, h1, h2

People == {alice, bob, carol}
Others == {bob, carol}
OnlyBob == {bob}

\* The hashes are only compared with each other.
HashSymmetry == Permutations(Hash)
==============================================================================
