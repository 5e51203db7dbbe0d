------------------------------- MODULE MCEvidence -------------------------------
(* An instance of Evidence for TLC: three requests of which two fit at the *)
(* same time; the third finds them running, with a token or without.       *)
EXTENDS Evidence

ArrivalTimes == <<0, 0, 1>>
FullBlocks == <<1, 2, 2>>
OutputTokens == <<2,2,1>>
AllPolicies == {"kv_aware_fifo", "prefix_aware_fifo", "slack_aware_prefix_fifo"}
=============================================================================
