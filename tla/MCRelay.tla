-------------------------------- MODULE MCRelay -------------------------------
(***************************************************************************)
(* Instances of Relay for TLC.                                             *)
(***************************************************************************)
EXTENDS Relay

CONSTANTS stellar, ethereum, key

On == [base_fee |-> 1, fee_per_byte |-> 1, is_enabled |-> TRUE]
Off == [On EXCEPT !.is_enabled = FALSE]

\* Messages come from Stellar; initialize configures the other chains.
OnlyEthereum == [c \in Chain |-> IF c = ethereum THEN On ELSE Off]
TurnOff == {Off}
SameKey == [o \in Operator |-> key]
=============================================================================
