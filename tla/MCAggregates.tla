---------------------------- MODULE MCAggregates ----------------------------
(* Instances of Aggregates for TLC. *)
EXTENDS Aggregates

ClientSymmetry == Permutations(Client)
=============================================================================
