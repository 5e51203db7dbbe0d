---------------------------- MODULE ConfigValidation ----------------------------
(***************************************************************************)
(* Two validators of the same engine configuration: load_config of         *)
(* run_open_loop.py, before a run starts, and Config.__post_init__ of      *)
(* nanovllm/config.py, inside the LLM constructor.  An engine section is a *)
(* function on the keys that are given.  Shares are percent; a value of a  *)
(* wrong type is refused by both like one out of range and left out.       *)
(***************************************************************************)
EXTENDS Integers, FiniteSets

PressurePolicies == {"pressure_aware_decode", "chunked_prefill_budgeted",
                     "recompute_aware", "recompute_aware_bounded"}
Policies == PressurePolicies \union {"prefill_first", "decode_first_budgeted",
                                     "mixed_token_budget", "mixed_slo_budget"}

RequiredKeys == {"tensor_parallel_size", "max_model_len", "max_num_batched_tokens",
                 "max_num_seqs", "gpu_memory_utilization", "kvcache_block_size"}
PressureCounts == {"pressure_preemption_window", "pressure_preemption_threshold",
                   "pressure_hysteresis_steps", "pressure_waiting_age_threshold"}
PressureKeys == PressureCounts \union
  {"pressure_decode_token_budget", "pressure_decode_step_guard",
   "pressure_high_utilization", "pressure_critical_utilization"}
DeadlineKeys == {"ttft_slo_ms", "itl_slo_ms"}
BoundedKeys == DeadlineKeys \union {"max_drain_steps", "waiting_age_limit"}
MixedKeys == DeadlineKeys \union {"mixed_min_prefill_tokens",
               "mixed_waiting_age_threshold", "mixed_slack_threshold_ms"}
OptionalKeys == PressureKeys \union BoundedKeys \union MixedKeys \union
  {"scheduler_policy", "decode_token_budget", "decode_step_guard",
   "num_kvcache_blocks", "cuda_event_timing", "prefill_chunk_token_budget",
   "distributed_init_port", "incremental_kv_allocation"}

(* The defaults of the dataclass Config.                                   *)
Default ==
  [scheduler_policy |-> "prefill_first", decode_token_budget |-> 0,
   decode_step_guard |-> 0, num_kvcache_blocks |-> -1, cuda_event_timing |-> FALSE,
   pressure_decode_token_budget |-> 4, pressure_decode_step_guard |-> 0,
   pressure_high_utilization |-> 75, pressure_critical_utilization |-> 100,
   pressure_preemption_window |-> 4, pressure_preemption_threshold |-> 2,
   pressure_hysteresis_steps |-> 2, pressure_waiting_age_threshold |-> 4,
   prefill_chunk_token_budget |-> 0, max_drain_steps |-> 0, waiting_age_limit |-> 0,
   ttft_slo_ms |-> 0, itl_slo_ms |-> 0, mixed_min_prefill_tokens |-> 0,
   mixed_waiting_age_threshold |-> 0, mixed_slack_threshold_ms |-> 0,
   distributed_init_port |-> 2333, incremental_kv_allocation |-> FALSE]

Given(f, given, default) == IF f \in DOMAIN given THEN given[f] ELSE default[f]

Completed(e, default) ==
  [f \in DOMAIN e \union DOMAIN default |-> Given(f, e, default)]

AllPositive(e, fields) == \A f \in fields : e[f] > 0

---------------------------------------------------------------------------
(* load_config.  A run's configuration is a record of sections, of which   *)
(* profiling and admission may be missing.                                 *)

DefaultSections ==
  [profiling |-> [enabled |-> FALSE, wait_steps |-> 0, warmup_steps |-> 1,
                  active_steps |-> 3, repeat |-> 1, cuda_events |-> FALSE],
   admission |-> [policy |-> "disabled", max_queue_wait_seconds |-> 0,
                  observe_prefix_cache |-> FALSE, eta_prefill_seconds |-> 0,
                  eta_decode_seconds_per_token |-> 0, eta_safety_margin_seconds |-> 0]]

KeysAccepted(e) ==
  RequiredKeys \subseteq DOMAIN e /\ DOMAIN e \subseteq RequiredKeys \union OptionalKeys

WithSections(c) == Completed(c, DefaultSections)

(* engine.setdefault: what the run hands to LLM.                           *)
Loaded(c) ==
  [c EXCEPT !.engine = Completed(@,
    [scheduler_policy |-> "prefill_first", decode_token_budget |-> 0,
     decode_step_guard |-> 0, cuda_event_timing |-> c.profiling.cuda_events])]

SizesAccepted(e) ==
  /\ AllPositive(e, RequiredKeys)
  /\ e.tensor_parallel_size = 1 /\ e.gpu_memory_utilization <= 100
  /\ "num_kvcache_blocks" \in DOMAIN e => e.num_kvcache_blocks > 0

BudgetsAccepted(e) ==
  /\ e.scheduler_policy \in Policies /\ e.decode_step_guard >= 0
  /\ IF e.scheduler_policy = "prefill_first"
     THEN e.decode_token_budget = 0 /\ e.decode_step_guard = 0
     ELSE e.decode_token_budget > 0

PressureFieldsAccepted(e) ==
  /\ e.pressure_decode_token_budget \in 1..e.decode_token_budget
  /\ AllPositive(e, PressureCounts) /\ e.pressure_decode_step_guard >= 0
  /\ e.pressure_high_utilization \in 1..99
  /\ e.pressure_critical_utilization \in e.pressure_high_utilization..100

PressureAccepted(e) ==
  IF e.scheduler_policy \in PressurePolicies
  THEN PressureKeys \subseteq DOMAIN e /\ PressureFieldsAccepted(e)
  ELSE PressureKeys \intersect DOMAIN e = {}

(* Mutant: the chunk is not compared with the step budget.                 *)
ChunkAcceptedAny(e) ==
  IF e.scheduler_policy = "chunked_prefill_budgeted"
  THEN "prefill_chunk_token_budget" \in DOMAIN e /\ e.prefill_chunk_token_budget > 0
  ELSE "prefill_chunk_token_budget" \notin DOMAIN e

ChunkAccepted(e) ==
  IF e.scheduler_policy = "chunked_prefill_budgeted"
  THEN /\ "prefill_chunk_token_budget" \in DOMAIN e
       /\ e.prefill_chunk_token_budget \in 1..e.max_num_batched_tokens
  ELSE "prefill_chunk_token_budget" \notin DOMAIN e

DeadlinesAccepted(e, slo) ==
  LET required(keys) ==
        /\ keys \subseteq DOMAIN e /\ AllPositive(e, keys)
        /\ \A name \in DeadlineKeys : e[name] = slo[name]
  IN  CASE e.scheduler_policy = "recompute_aware_bounded" -> required(BoundedKeys)
        [] e.scheduler_policy = "mixed_slo_budget" -> required(MixedKeys)
        [] OTHER -> BoundedKeys \intersect DOMAIN e = {}

MeasurementAccepted(m) ==
  /\ m.start_seconds >= 0 /\ m.end_seconds > m.start_seconds
  /\ m.max_run_seconds >= m.end_seconds

(* batch_sizes: the set of those that are warmed up.                       *)
WarmupAccepted(w, e) ==
  /\ w.prompt_length > 0 /\ w.max_output_tokens > 0
  /\ w.batch_sizes # {} /\ \A n \in w.batch_sizes : n \in 1..e.max_num_seqs

ProfilingAccepted(p) ==
  /\ p.wait_steps >= 0 /\ p.warmup_steps >= 0
  /\ p.active_steps > 0 /\ p.repeat > 0

EtaKeys == {"eta_prefill_seconds", "eta_decode_seconds_per_token",
            "eta_safety_margin_seconds"}

AdmissionAccepted(a, e) ==
  CASE a.policy = "disabled" ->
         a.max_queue_wait_seconds = 0 /\ \A f \in EtaKeys : a[f] = 0
    [] a.policy \in {"kv_aware_fifo", "prefix_aware_fifo", "slack_aware_prefix_fifo"} ->
         /\ a.policy # "kv_aware_fifo" => a.observe_prefix_cache
         /\ a.max_queue_wait_seconds > 0
         /\ IF a.policy = "slack_aware_prefix_fifo" THEN AllPositive(a, EtaKeys)
            ELSE \A f \in EtaKeys : a[f] = 0
         /\ "num_kvcache_blocks" \in DOMAIN e
    [] OTHER -> FALSE

(* Everything load_config checks but the paths; c has all its sections.    *)
LoadConfigAccepts(c) ==
  LET e == Loaded(c).engine
  IN  /\ KeysAccepted(c.engine) /\ e.cuda_event_timing = c.profiling.cuda_events
      /\ SizesAccepted(e) /\ BudgetsAccepted(e) /\ PressureAccepted(e)
      /\ ChunkAccepted(e) /\ DeadlinesAccepted(e, c.slo)
      /\ AllPositive(c.slo, DeadlineKeys)
      /\ MeasurementAccepted(c.measurement) /\ WarmupAccepted(c.warmup, e)
      /\ ProfilingAccepted(c.profiling) /\ AdmissionAccepted(c.admission, e)

---------------------------------------------------------------------------
(* What main asks of the trace: requests are records of their lengths.     *)

RequiredKvBlocks(prompt, output, size) == (prompt + output - 1 + size - 1) \div size

PrefixAligned(q, c) ==
  (c.admission.policy \in {"prefix_aware_fifo", "slack_aware_prefix_fifo"} /\ q.grouped)
    => q.shared_prefix_length % c.engine.kvcache_block_size = 0

KvFeasible(c, specs) ==
  "num_kvcache_blocks" \in DOMAIN c.engine =>
    LET fits(prompt, output) ==
          RequiredKvBlocks(prompt, output, c.engine.kvcache_block_size)
            <= c.engine.num_kvcache_blocks
    IN  /\ \A q \in specs : PrefixAligned(q, c) /\ fits(q.prompt_length, q.max_output_tokens)
        /\ c.warmup.enabled => fits(c.warmup.prompt_length, c.warmup.max_output_tokens)

TraceAccepted(c, specs) ==
  /\ \A q \in specs :
       /\ q.prompt_length + q.max_output_tokens <= c.engine.max_model_len
       /\ c.slo.require_itl /\ q.interactive => q.max_output_tokens >= 2
  /\ KvFeasible(c, specs)

---------------------------------------------------------------------------
(* Config.__post_init__; e is completed by the defaults.                   *)

BlockSizeValid(e) == e.kvcache_block_size % 256 = 0
PortValid(e) == e.distributed_init_port \in 1024..65535

SizesValid(e) ==
  /\ BlockSizeValid(e) /\ e.tensor_parallel_size \in 1..8
  /\ e.num_kvcache_blocks = -1 \/ e.num_kvcache_blocks > 0
  /\ PortValid(e)

BudgetsValid(e) ==
  /\ e.scheduler_policy \in Policies /\ e.decode_step_guard >= 0
  /\ e.scheduler_policy # "prefill_first" => e.decode_token_budget > 0
  /\ e.scheduler_policy = "prefill_first" =>
       e.decode_token_budget = 0 /\ e.decode_step_guard = 0

PressureFieldsValid(e) ==
  /\ e.pressure_decode_token_budget > 0
  /\ e.pressure_decode_token_budget <= e.decode_token_budget
  /\ e.pressure_decode_step_guard >= 0
  /\ e.pressure_high_utilization \in 1..99
  /\ e.pressure_critical_utilization \in 1..100
  /\ e.pressure_high_utilization <= e.pressure_critical_utilization
  /\ AllPositive(e, PressureCounts)

DeadlinesValid(e) ==
  CASE e.scheduler_policy = "mixed_slo_budget" ->
         AllPositive(e, MixedKeys) /\ e.mixed_min_prefill_tokens < e.max_num_batched_tokens
    [] e.scheduler_policy = "recompute_aware_bounded" -> AllPositive(e, BoundedKeys)
    [] OTHER -> \A f \in BoundedKeys : e[f] = 0

ChunkValid(e) ==
  IF e.scheduler_policy = "chunked_prefill_budgeted"
  THEN e.prefill_chunk_token_budget \in 1..e.max_num_batched_tokens
  ELSE e.prefill_chunk_token_budget = 0

ConfigAccepts(engine) ==
  LET e == Completed(engine, Default)
  IN  /\ SizesValid(e) /\ BudgetsValid(e)
      /\ e.scheduler_policy \in PressurePolicies => PressureFieldsValid(e)
      /\ DeadlinesValid(e) /\ ChunkValid(e)

(* What only Config checks: the block size, the port, and that a mixed     *)
(* step leaves room for a decode token.                                    *)
OnlyConfigRefuses(engine) ==
  LET e == Completed(engine, Default)
  IN  \/ ~ BlockSizeValid(e) \/ ~ PortValid(e)
      \/ /\ e.scheduler_policy = "mixed_slo_budget"
         /\ e.mixed_min_prefill_tokens >= e.max_num_batched_tokens
=============================================================================
