----------------------------- MODULE MCCampaign -----------------------------
(* Campaign with 4 leads and 2 slots: a lead can wait for a slot, both slots
   and the select can hold a dial that begins after Cancel returned, and one
   lead is left over for the loop to skip.                                  *)
EXTENDS Campaign
=============================================================================
