---------------------------- MODULE MixedScheduler ----------------------------
(***************************************************************************)
(* The policies that put decode and prefill work in the same step:         *)
(* _schedule_mixed_token_budget, which serves decode first, and            *)
(* _schedule_mixed_slo_budget, which lets a waiting request that is old or *)
(* near its TTFT deadline go first.  A request counts as late when its     *)
(* TTFT slack is below mixed_slack_threshold.  next_token_deadline_at is   *)
(* never set for these policies, so the ITL branch of the allocator is not *)
(* taken.                                                                  *)
(***************************************************************************)
EXTENDS SchedulerState

CONSTANTS
  MinPrefill,        \* mixed_min_prefill_tokens
  MixedAgeThreshold  \* mixed_waiting_age_threshold

ASSUME MixedAssumption ==
  /\ MinPrefill \in Nat /\ MixedAgeThreshold \in Nat
  /\ (\E config \in Configs : config.policy = "mixed_slo_budget") =>
       MixedAgeThreshold > 0 /\ MinPrefill \in 1..(MaxBatched - 1)

(* Bound: past it an age changes no decision, planned_prefill is capped.   *)
MixedAgeCap == (MaxBatched - 1) * MixedAgeThreshold

---------------------------------------------------------------------------
(* _schedule_mixed_token_budget                                            *)

FillUp(e) == SchedulePrefill(e, MaxBatched - TokensOf(e.batch))

TokenBudgetStep == FillUp(ScheduleDecode(st, MaxBatched, TRUE))

---------------------------------------------------------------------------
(* _schedule_mixed_slo_budget                                              *)

TtftPressed == \E s \in Elems(st.waiting) : s \in late
Urgent == st.waiting # << >> /\ (OldestAge >= MixedAgeThreshold \/ TtftPressed)

(* Mutant: an urgent request may take the whole budget.                    *)
PlannedPrefillAll ==
  IF st.waiting = << >> THEN 0
  ELSE IF Urgent THEN MaxBatched
  ELSE SmallerOf(MaxBatched - 1, MinPrefill)

(* max(planned_prefill, mixed_min_prefill_tokens) under TTFT pressure      *)
(* changes nothing: both arguments of the min are at least that.           *)
PlannedPrefill ==
  IF st.waiting = << >> THEN 0
  ELSE SmallerOf(MaxBatched - 1,
                 MinPrefill * LargerOf(1, OldestAge \div MixedAgeThreshold))

(* Mutant: no KV blocks are freed for the urgent request.                  *)
UrgentPrefillWaits == IF Urgent THEN SchedulePrefill(st, PlannedPrefill) ELSE st

UrgentPrefill ==
  IF Urgent THEN SchedulePrefill(FreeKvForWaitingHead(st), PlannedPrefill)
  ELSE st

(* Decode with the sequences that were just prefilled out of reach.        *)
Rejoined(e, prefilled) == [e EXCEPT !.running = @ \o prefilled]
DecodeBeside(e) ==
  Rejoined(ScheduleDecode([e EXCEPT !.running = Keep(@, SeqIds \ Selected(e))],
                          MaxBatched - PlannedPrefill, TRUE),
           Keep(e.running, Selected(e)))

HasPrefill(e) == \E k \in DOMAIN e.batch : e.batch[k].phase = "prefill"

OrPrefill(e) == IF HasPrefill(e) THEN e ELSE FillUp(e)
SloStep == OrPrefill(DecodeBeside(UrgentPrefill))

PrefillIds(e) ==
  {e.batch[k].seq : k \in {j \in DOMAIN e.batch : e.batch[j].phase = "prefill"}}
MixedAges(e) ==
  [s \in SeqIds |-> IF s \notin Elems(e.waiting) THEN -1
                    ELSE IF s \in PrefillIds(e) THEN 0
                    ELSE SmallerOf(MixedAgeCap, LargerOf(0, fb.age[s]) + 1)]

MixedSchedule ==
  /\ Mixed
  /\ \E e \in {IF Slo THEN SloStep ELSE TokenBudgetStep} :
       /\ Takes(e)
       /\ fb' = IF Slo /\ e.batch # << >> THEN [fb EXCEPT !.age = MixedAges(e)]
                ELSE fb

---------------------------------------------------------------------------
(* Properties                                                              *)

(* Prefill never starves decode: when a step leaves a running sequence     *)
(* out, the decode part of the step is full (token budget policy) or, next *)
(* to urgent prefill work, at least not empty (SLO policy).                *)
LeftOut(e) == {s \in Elems(e.running) : s \notin Selected(e)}
DecodeNotStarved ==
  Mixed /\ st.batch # << >> /\ LeftOut(st) # {} =>
    Cardinality({k \in DOMAIN st.batch : st.batch[k].phase = "decode"})
      >= SmallerOf(MaxNumSeqs, IF Slo THEN 1 ELSE MaxBatched)

(* TTFT slack forces prefill progress: when a waiting request is old or    *)
(* near its deadline, the step prefills a waiting request, at the cost of  *)
(* running ones if need be.  It need not when the head holds blocks already, *)
(* as it may with incremental allocation.                                  *)
UrgentHeadServed ==
  [][MixedSchedule /\ Slo /\ Urgent /\ st.table[Head(st.waiting)] = << >>
       => PrefillIds(st') # {}]_vars
=============================================================================
