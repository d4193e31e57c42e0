------------------------------ MODULE MCCampaign ------------------------------
(* Small instances of PrivateCampaign for TLC. *)
EXTENDS PrivateCampaign, TLC

CONSTANTS d1, d2

Documents == Permutations({d1, d2})
=============================================================================
