---------------------------- MODULE SchedulerState ----------------------------
(***************************************************************************)
(* The scheduler object of one engine, driven by LLMEngine.step, as far as *)
(* its policies agree: the variables, the arrival of a request, the clock, *)
(* and what becomes of a step.  A step is split where the model runs: a    *)
(* policy module's action picks the batch, Postprocess applies its         *)
(* results.  Requests arrive between steps.  The clock is abstracted to    *)
(* the set of requests whose deadline has passed.                          *)
(***************************************************************************)
EXTENDS SchedulerCore

CONSTANTS
  DecodeBudget,  \* decode_token_budget
  StepGuard,     \* decode_step_guard
  IgnoreEos      \* SamplingParams.ignore_eos of every request

ASSUME StateAssumption ==
  DecodeBudget \in Nat /\ StepGuard \in Nat /\ IgnoreEos \in BOOLEAN

VARIABLES
  st,       \* the engine, see SchedulerCore
  arrived,  \* requests 1..arrived have been added
  fb,       \* what the policy remembers between steps, see NoFeedback
  late,     \* requests whose TTFT or ITL deadline has passed
  failed    \* schedule() raised "Scheduler cannot make progress"

vars == <<st, arrived, fb, late, failed>>

Policy == st.policy
Static == Policy \in {"prefill_first", "decode_first_budgeted"}
Mixed == Policy \in {"mixed_token_budget", "mixed_slo_budget"}
Slo == Policy = "mixed_slo_budget"
Bounded == Policy = "recompute_aware_bounded"
RecomputeAware == Policy \in {"recompute_aware", "recompute_aware_bounded"}

(*   tokens, steps  decode_tokens_since_prefill, decode_steps_since_waiting*)
(*   age            _waiting_age_steps, -1 for a sequence that is not in it*)
(*   state, clean   _pressure_state, _pressure_clean_steps                 *)
(*   recent         _recent_preemption_deltas, each capped at the          *)
(*                  threshold their sum is compared with                   *)
(*   drain          _active_drain_steps, 0 without an active episode       *)
(*   watch          sequences of _drain_slo_watch without progress since   *)
(*                  the episode began                                      *)
NoFeedback ==
  [tokens |-> 0, steps |-> 0, age |-> [s \in SeqIds |-> -1],
   state |-> "normal", clean |-> 0, recent |-> << >>,
   drain |-> 0, watch |-> {}]

Init ==
  /\ \E config \in Configs, kind \in [SeqIds -> Kinds] :
       st = Fresh(config, kind)
  /\ arrived = 0 /\ fb = NoFeedback /\ late = {} /\ failed = FALSE

(* LLMEngine.add_request and Scheduler.add.                                *)
AddRequest ==
  /\ ~ failed /\ st.batch = << >> /\ arrived < NumSeqs
  /\ arrived' = arrived + 1
  /\ st' = Added(st, arrived + 1)
  /\ fb' = IF Policy = "decode_first_budgeted" /\ st.waiting = << >>
           THEN [fb EXCEPT !.tokens = 0, !.steps = 0]
           ELSE IF Static \/ Policy = "mixed_token_budget" THEN fb
           ELSE [fb EXCEPT !.age[arrived + 1] = 0]
  /\ UNCHANGED <<late, failed>>

(* Under mixed_slo_budget a request has one deadline, the TTFT one, which  *)
(* is set on arrival with the same objective for all, so that they pass in *)
(* that order, and is not cleared when the first token is out.  Under the  *)
(* bounded policy it is the ITL deadline after the first token, renewed    *)
(* with every token.  No other policy reads deadlines.                     *)
DeadlinePasses ==
  /\ ~ failed
  /\ \E s \in (1..arrived) \ late :
       /\ \/ Slo /\ 1..(s - 1) \subseteq late
          \/ Bounded /\ s \notin st.finished
       /\ late' = late \union {s}
  /\ UNCHANGED <<st, arrived, fb, failed>>

OldestAge == LET ages == {0} \union {fb.age[s] : s \in SeqIds}
             IN  CHOOSE a \in ages : \A b \in ages : b <= a

---------------------------------------------------------------------------
(* A step.  schedule() is called while there is work.  An outcome carries  *)
(* the engine with its batch, and the counters; an empty batch means that  *)
(* every attempt failed and schedule() raises.                             *)

CanSchedule ==
  /\ ~ failed /\ st.batch = << >>
  /\ st.waiting # << >> \/ st.running # << >>

Outcome(e, tokens, steps) ==
  [st |-> e, tokens |-> tokens, steps |-> steps,
   drain |-> fb.drain, watch |-> fb.watch]
Prefilled(e) == Outcome(e, 0, 0)
Decoding(e, counted) ==
  IF counted THEN Outcome(e, fb.tokens + Len(e.batch), fb.steps + 1)
  ELSE Outcome(e, fb.tokens, fb.steps)

Takes(e) ==
  /\ CanSchedule
  /\ st' = e /\ failed' = (e.batch = << >>)
  /\ UNCHANGED <<arrived, late>>

(* Scheduler.postprocess and postprocess_mixed: whoever was in the batch   *)
(* has made progress, and under the bounded policy a token renews the      *)
(* deadline.                                                               *)
Postprocess ==
  /\ st.batch # << >>
  /\ \E eos \in IF IgnoreEos THEN {{}} ELSE SUBSET Selected(st) :
       st' = Postprocessed(st, eos)
  /\ fb' = [fb EXCEPT !.watch = @ \ Selected(st)]
  /\ late' = {s \in late : Slo \/ st'.len[s] = st.len[s]}
  /\ UNCHANGED <<arrived, failed>>

Drained ==
  /\ arrived = NumSeqs /\ st.finished = SeqIds
  /\ UNCHANGED vars
=============================================================================
