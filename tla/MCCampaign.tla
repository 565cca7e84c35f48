------------------------------ MODULE MCCampaign ------------------------------
(* Instances of CampaignHandlers for TLC. *)
EXTENDS CampaignHandlers, TLC

ClientSymmetry == Permutations(Client)
=============================================================================
