----------------------------- MODULE MCScheduler -----------------------------
(* Instances of Scheduler for TLC: three requests on four blocks of two    *)
(* tokens.  Requests fit alone, fit in pairs or compete, depending on the  *)
(* order; some share a first block.                                        *)
EXTENDS Scheduler

First == [prompt |-> <<1, 1, 1>>, max |-> 3]
Sharer == [prompt |-> <<1, 1, 2, 2, 2>>, max |-> 4]
Short == [prompt |-> <<3>>, max |-> 2]
\* A prompt of four blocks: with small steps its chunked prefill overlaps
\* the growth of the others.
Long == [prompt |-> <<3, 3, 3, 3, 3, 3, 3>>, max |-> 2]
LongSharer == [prompt |-> <<1, 1, 3, 3, 3, 3, 3>>, max |-> 2]
Lasting == [prompt |-> <<1, 1, 1>>, max |-> 4]

AllKinds == {First, Sharer, Short, Long, LongSharer, Lasting}
KindsOf(config) ==
  CASE config.policy \in {"mixed_token_budget", "mixed_slo_budget"} -> {Lasting, LongSharer}
    [] config.policy \in {"prefill_first", "decode_first_budgeted"}
         /\ ~ config.incremental -> {First, Sharer, Short}
    [] OTHER -> {First, Sharer, Long}

StaticAndMixed ==
  [policy : {"prefill_first", "decode_first_budgeted"}, incremental : {FALSE}]
    \union {[policy |-> "mixed_token_budget", incremental |-> TRUE],
            [policy |-> "mixed_slo_budget", incremental |-> FALSE],
            [policy |-> "mixed_slo_budget", incremental |-> TRUE]}
UnderPressure ==
  [policy : {"pressure_aware_decode", "chunked_prefill_budgeted",
             "recompute_aware", "recompute_aware_bounded"},
   incremental : {FALSE}]
PrefillFirstIncremental == {[policy |-> "prefill_first", incremental |-> TRUE]}
\* With incremental allocation, five blocks and MaxBatched = 2 a drain
\* outlasts its budget: DrainBounded fails (README, part 6).
BoundedIncremental == {[policy |-> "recompute_aware_bounded", incremental |-> TRUE]}

MCInit ==
  /\ \E config \in Configs : \E kind \in [SeqIds -> KindsOf(config)] :
       st = Fresh(config, kind)
  /\ arrived = 0 /\ fb = NoFeedback /\ late = {} /\ failed = FALSE

MCSpec == MCInit /\ [][Next]_vars /\ Fairness
=============================================================================
