---------------------- MODULE MCOperatorPositionLedger ----------------------
(* Instances of OperatorPositionLedger for TLC. *)
EXTENDS OperatorPositionLedger

Symmetry == Permutations(Client) \cup Permutations(Instrument) \cup Permutations(Position)
=============================================================================
