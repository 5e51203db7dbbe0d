----------------------------- MODULE MCAdmission -----------------------------
(* Instances of Admission for TLC: three requests on four blocks of two    *)
(* tokens; they need two or three blocks for their whole life, so two of   *)
(* them may fit together, and two kinds share their first block.           *)
EXTENDS Admission

MixedKinds == {[prompt |-> <<1, 1, 1>>, max |-> 2],
               [prompt |-> <<1, 1, 1>>, max |-> 3],
               [prompt |-> <<3, 3, 3>>, max |-> 2]}

PrefillFirst == {[policy |-> "prefill_first", incremental |-> FALSE]}
=============================================================================
