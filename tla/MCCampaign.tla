----------------------------- MODULE MCCampaign -----------------------------
(***************************************************************************)
(* Two cases of up to two records.                                         *)
(***************************************************************************)
EXTENDS CampaignRuntime
=============================================================================
