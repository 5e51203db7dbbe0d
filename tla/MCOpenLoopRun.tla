----------------------------- MODULE MCOpenLoopRun -----------------------------
(* Instances of OpenLoopRun for TLC: for each policy a configuration that  *)
(* is right, with one value changed or one key left out, and for some of   *)
(* them other sections.  Two requests, two processes.                      *)
EXTENDS OpenLoopRun, TLC

Plain == [tensor_parallel_size |-> 1, max_model_len |-> 512, max_num_batched_tokens |-> 512,
          max_num_seqs |-> 4, gpu_memory_utilization |-> 90, kvcache_block_size |-> 256,
          num_kvcache_blocks |-> 4]
Budget == [decode_token_budget |-> 4, decode_step_guard |-> 1]
Pressure == [pressure_decode_token_budget |-> 2, pressure_decode_step_guard |-> 0,
             pressure_high_utilization |-> 75, pressure_critical_utilization |-> 90,
             pressure_preemption_window |-> 4, pressure_preemption_threshold |-> 2,
             pressure_hysteresis_steps |-> 2, pressure_waiting_age_threshold |-> 4]
Deadlines == [ttft_slo_ms |-> 100, itl_slo_ms |-> 50]
Mixed == [mixed_min_prefill_tokens |-> 64, mixed_waiting_age_threshold |-> 4,
          mixed_slack_threshold_ms |-> 10]

With(e, f) == Completed(e, f)
Right(policy) ==
  With([scheduler_policy |-> policy],
    CASE policy = "prefill_first" -> Plain
      [] policy \in {"decode_first_budgeted", "mixed_token_budget"} -> With(Plain, Budget)
      [] policy = "mixed_slo_budget" -> With(With(Plain, Budget), With(Deadlines, Mixed))
      [] policy = "recompute_aware" \/ policy = "pressure_aware_decode" ->
           With(With(Plain, Budget), Pressure)
      [] policy = "chunked_prefill_budgeted" ->
           With(With(With(Plain, Budget), Pressure), [prefill_chunk_token_budget |-> 128])
      [] policy = "recompute_aware_bounded" ->
           With(With(With(Plain, Budget), Pressure),
                With(Deadlines, [max_drain_steps |-> 3, waiting_age_limit |-> 3])))

(* Values just outside of the bounds of the fields a policy uses, and      *)
(* fields it does not use.                                                 *)
Changes(policy) ==
  {change \in
     ({"decode_token_budget", "pressure_preemption_window", "max_drain_steps",
       "waiting_age_limit", "mixed_waiting_age_threshold", "ttft_slo_ms"} \X {0})
     \union ({"pressure_decode_token_budget"} \X {0, 5})
     \union ({"prefill_chunk_token_budget", "mixed_min_prefill_tokens"} \X {0, 512, 513})
     \union ({"pressure_high_utilization"} \X {0, 91, 101})
     \union ({"pressure_critical_utilization"} \X {0, 74, 101})
     \union {<<"tensor_parallel_size", 2>>, <<"kvcache_block_size", 128>>,
             <<"num_kvcache_blocks", 1>>, <<"num_kvcache_blocks", 0>>,
             <<"decode_step_guard", -1>>, <<"scheduler_policy", "fifo">>} :
     change[1] \in DOMAIN Right(policy)}
  \union {<<"distributed_init_port", 80>>, <<"ttft_slo_ms", 1>>,
          <<"prefill_chunk_token_budget", 1>>, <<"pressure_hysteresis_steps", 1>>}

EngineSections ==
  UNION {{Right(policy)}
         \union {With(change[1] :> change[2], Right(policy)) : change \in Changes(policy)}
         \union {[f \in DOMAIN Right(policy) \ {k} |-> Right(policy)[f]] :
                   k \in DOMAIN Right(policy) \ {"num_kvcache_blocks", "decode_step_guard"}} :
           policy \in Policies}

Admitting(policy, observe, wait, eta) ==
  [policy |-> policy, max_queue_wait_seconds |-> wait, observe_prefix_cache |-> observe,
   eta_prefill_seconds |-> eta, eta_decode_seconds_per_token |-> eta,
   eta_safety_margin_seconds |-> eta]
AdmissionSections ==
  {Admitting(policy, observe, wait, eta) :
     policy \in {"disabled", "prefix_aware_fifo", "slack_aware_prefix_fifo"},
     observe \in BOOLEAN, wait \in {0, 1}, eta \in {0, 1}}
ProfilingSections ==
  {[enabled |-> enabled, wait_steps |-> 0, warmup_steps |-> 1, active_steps |-> steps,
    repeat |-> 1, cuda_events |-> enabled] : enabled \in BOOLEAN, steps \in {0, 3}}

Run(e) ==
  [engine |-> e, slo |-> [ttft_slo_ms |-> 100, itl_slo_ms |-> 50, require_itl |-> TRUE],
   measurement |-> [start_seconds |-> 0, end_seconds |-> 5, max_run_seconds |-> 9],
   warmup |-> [enabled |-> TRUE, prompt_length |-> 100, max_output_tokens |-> 2,
               batch_sizes |-> {1, 4}]]

RunConfigs ==
  {Run(e) : e \in EngineSections}
  \union {With([admission |-> a, profiling |-> p], Run(Right("prefill_first"))) :
            a \in AdmissionSections, p \in ProfilingSections}

TwoSpecs == {[prompt_length |-> 300, max_output_tokens |-> 100, interactive |-> FALSE,
              grouped |-> TRUE, shared_prefix_length |-> 256],
             [prompt_length |-> 100, max_output_tokens |-> 2, interactive |-> TRUE,
              grouped |-> FALSE, shared_prefix_length |-> 0]}

ProcessesAlike == Permutations(Process)
=============================================================================
