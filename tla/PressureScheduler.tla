-------------------------- MODULE PressureScheduler --------------------------
(***************************************************************************)
(* The policies that react to KV pressure:                                 *)
(* pressure_aware_decode and chunked_prefill_budgeted                      *)
(* (_schedule_pressure_aware), recompute_aware (_schedule_recompute_aware) *)
(* and recompute_aware_bounded (_schedule_recompute_aware_bounded).  They  *)
(* classify the engine as normal, pressure or critical with hysteresis,    *)
(* count how many steps each request has waited, and, under the bounded    *)
(* policy, drain running sequences in episodes, which end when an SLO      *)
(* deadline passes.                                                        *)
(***************************************************************************)
EXTENDS SchedulerState

CONSTANTS
  PressureBudget, PressureGuard,    \* decode_token_budget and _step_guard
                                    \* under pressure
  HighUsed, CriticalUsed,           \* pressure_high_utilization and
                                    \* pressure_critical_utilization, in blocks
  PreemptWindow, PreemptThreshold,  \* pressure_preemption_window, _threshold
  HysteresisSteps,                  \* pressure_hysteresis_steps
  AgeThreshold,                     \* pressure_waiting_age_threshold
  ChunkBudget,                      \* prefill_chunk_token_budget
  MaxDrainSteps, WaitingAgeLimit    \* max_drain_steps, waiting_age_limit

ASSUME PressureAssumption ==
  /\ PressureBudget \in 1..DecodeBudget /\ ChunkBudget \in 1..MaxBatched
  /\ PressureGuard \in Nat
  /\ HighUsed \in 1..CriticalUsed /\ CriticalUsed <= NumBlocks
  /\ {PreemptWindow, PreemptThreshold, HysteresisSteps, AgeThreshold,
      MaxDrainSteps, WaitingAgeLimit} \subseteq Nat \ {0}

States == {"normal", "pressure", "critical"}

(* Bound: past it an age changes no decision.                              *)
AgeCap == LargerOf(AgeThreshold, WaitingAgeLimit)

---------------------------------------------------------------------------
(* _classify_pressure_state: the signals and the state machine.            *)

InitialAge ==
  LET ages == {0} \union {fb.age[s] : s \in {w \in Elems(st.waiting) :
                                               Completion(st, w) = 0}}
  IN  CHOOSE a \in ages : \A b \in ages : b <= a

RecentPreemptions ==
  LET f[i \in 0..Len(fb.recent)] ==
        IF i = 0 THEN 0 ELSE f[i - 1] + fb.recent[i]
  IN  f[Len(fb.recent)]

Used == Cardinality(st.pool.used)
IsCritical == Used >= CriticalUsed \/ OldestAge >= AgeThreshold
Pressured == Used >= HighUsed \/ RecentPreemptions >= PreemptThreshold

Classified ==
  LET calmer == IF Pressured THEN "pressure" ELSE "normal"
      over == fb.clean + 1 >= HysteresisSteps
  IN  CASE IsCritical -> [state |-> "critical", clean |-> 0]
        [] ~ IsCritical /\ fb.state = "critical" /\ over ->
             [state |-> calmer, clean |-> 0]
        [] ~ IsCritical /\ fb.state # "critical" /\ Pressured ->
             [state |-> "pressure", clean |-> 0]
        [] ~ IsCritical /\ fb.state = "pressure" /\ ~ Pressured /\ over ->
             [state |-> "normal", clean |-> 0]
        [] ~ IsCritical /\ fb.state = "normal" /\ ~ Pressured ->
             [state |-> "normal", clean |-> fb.clean]
        [] OTHER -> [state |-> fb.state, clean |-> fb.clean + 1]

High == Classified.state \in {"pressure", "critical"}
Budget == IF High THEN PressureBudget ELSE DecodeBudget
Left == LargerOf(0, Budget - fb.tokens)
GuardAllows == LET guard == IF High THEN PressureGuard ELSE StepGuard
               IN  guard = 0 \/ fb.steps < guard

Forced ==
  /\ st.waiting # << >>
  /\ AgeThreshold <= IF RecomputeAware THEN InitialAge ELSE OldestAge

---------------------------------------------------------------------------
(* _schedule_adaptive_prefill                                              *)
AdaptivePrefill(e) ==
  SchedulePrefill(e, IF st.policy = "chunked_prefill_budgeted" /\ e.running # << >>
                     THEN ChunkBudget ELSE MaxBatched)

(* The end every policy shares: a prefill, or else a decode.               *)
LastDecode(e) == Decoding(e, e.waiting # << >>)
AfterPrefill(e) ==
  IF e.batch # << >> THEN Prefilled(e)
  ELSE LastDecode(ScheduleDecode(e, IF e.waiting # << >> THEN Left ELSE Budget,
                                 TRUE))
PrefillOrDecode(e) == AfterPrefill(AdaptivePrefill(e))

---------------------------------------------------------------------------
(* _schedule_pressure_aware and _schedule_recompute_aware.                 *)

(* _rank_running_for_drain: the key of one running sequence against        *)
(* another; release_efficiency is compared crosswise.                      *)
Remaining(e, s) == LargerOf(e.maxTokens[s] - Completion(e, s), 0)
DrainKey(e, s, other) ==
  <<IF e.len[s] % BlockSize = 1 THEN 1 ELSE 0,
    0 - Releasable(e, s) * LargerOf(Remaining(e, other), 1),
    0 - EstimatedRecompute(e, s), Remaining(e, s), s>>
DrainsBefore(e, s, t) == Precedes(DrainKey(e, s, t), DrainKey(e, t, s))
InDrainOrder(e, q) ==
  CHOOSE r \in [1..Len(q) -> Elems(q)] :
    /\ Elems(r) = Elems(q)
    /\ \A i, j \in 1..Len(q) : i < j => DrainsBefore(e, r[i], r[j])
Ranked(e) == [e EXCEPT !.running = InDrainOrder(e, @)]

AfterOnlyDecode(e) ==
  IF e.batch # << >> THEN Decoding(e, FALSE) ELSE PrefillOrDecode(e)
AfterDecode(e) ==
  IF e.batch # << >> THEN Decoding(e, TRUE)
  ELSE PrefillOrDecode(FreeKvForWaitingHead(e))

(* Decode next to waiting requests: under high pressure recompute_aware    *)
(* drains the best ranked sequence, whatever the step guard says.          *)
DecodeWhileWaiting(e) ==
  IF RecomputeAware /\ High
  THEN ScheduleDecode(Ranked(e), SmallerOf(1, Left), TRUE)
  ELSE IF Left > 0 /\ GuardAllows
       THEN ScheduleDecode(e, SmallerOf(MaxNumSeqs, Left), TRUE)
       ELSE e

Unforced(e) ==
  IF e.running = << >> THEN PrefillOrDecode(e)
  ELSE IF e.waiting = << >> THEN AfterOnlyDecode(ScheduleDecode(e, Budget, TRUE))
  ELSE AfterDecode(DecodeWhileWaiting(e))

AfterForced(e) == IF e.batch # << >> THEN Prefilled(e) ELSE Unforced(e)

(* Mutant: the starving request is given no KV blocks.                     *)
ForcedPrefillWaits == AdaptivePrefill(st)

ForcedPrefill == AdaptivePrefill(FreeKvForWaitingHead(st))

PressureStep == IF Forced THEN AfterForced(ForcedPrefill) ELSE Unforced(st)

---------------------------------------------------------------------------
(* _schedule_recompute_aware_bounded.                                      *)

(* _close_drain_episode                                                    *)
Closed(r) == [r EXCEPT !.drain = 0, !.watch = {}]

Room(e) == IF e.waiting # << >> THEN FreeKvForWaitingHead(e) ELSE e
BoundedPrefill(e) == SchedulePrefill(Room(e), MaxBatched)

(* The prefill at the end; the episode is closed when nothing runs.        *)
AfterLast(before, e) ==
  IF before.running = << >> THEN Closed(AfterPrefill(e)) ELSE AfterPrefill(e)
LastPrefill(e) == AfterLast(e, BoundedPrefill(e))

AfterNormalDecode(e) ==
  IF e.batch # << >> THEN Closed(Decoding(e, FALSE)) ELSE LastPrefill(e)
NothingWaits(e) ==
  IF e.running # << >> /\ e.waiting = << >>
  THEN AfterNormalDecode(ScheduleDecode(e, Budget, TRUE))
  ELSE LastPrefill(e)

AfterBaselineDecode(e) ==
  IF e.batch # << >> THEN Decoding(e, TRUE) ELSE NothingWaits(e)
BaselineDecode(e) ==
  IF Left > 0 /\ GuardAllows
  THEN AfterBaselineDecode(ScheduleDecode(e, SmallerOf(MaxNumSeqs, Left), TRUE))
  ELSE NothingWaits(e)

(* _start_drain_episode: the deadlines that are still ahead are watched.   *)
Watched(e) ==
  IF fb.drain # 0 THEN fb.watch
  ELSE Elems(e.running \o e.waiting) \ late
AfterDrainDecode(e) ==
  IF e.batch # << >>
  THEN [Decoding(e, TRUE) EXCEPT !.drain = @ + 1, !.watch = Watched(e)]
  ELSE BaselineDecode(e)
DrainDecode(e) ==
  IF Pressured /\ Left > 0
  THEN AfterDrainDecode(ScheduleDecode(Ranked(e), 1, TRUE))
  ELSE BaselineDecode(e)

(* _bounded_drain_exit; mutants: the step bound is off by one, the SLO     *)
(* watch is not consulted.                                                 *)
DrainExitOneLate ==
  IF fb.drain = 0 THEN OldestAge >= WaitingAgeLimit
  ELSE \/ ~ Pressured \/ fb.drain > MaxDrainSteps
       \/ OldestAge >= WaitingAgeLimit \/ fb.watch \intersect late # {}
DrainExitUnwatched ==
  IF fb.drain = 0 THEN OldestAge >= WaitingAgeLimit
  ELSE ~ Pressured \/ fb.drain >= MaxDrainSteps \/ OldestAge >= WaitingAgeLimit

DrainExit ==
  IF fb.drain = 0 THEN OldestAge >= WaitingAgeLimit
  ELSE \/ ~ Pressured \/ fb.drain >= MaxDrainSteps
       \/ OldestAge >= WaitingAgeLimit \/ fb.watch \intersect late # {}

AfterExit(e) == IF e.batch # << >> THEN Closed(Prefilled(e)) ELSE DrainDecode(e)
Contended(e) ==
  IF e.running = << >> \/ e.waiting = << >> THEN NothingWaits(e)
  ELSE IF DrainExit THEN AfterExit(BoundedPrefill(e))
  ELSE DrainDecode(e)

AfterBounded(e) == IF e.batch # << >> THEN Prefilled(e) ELSE Contended(e)
BoundedStep ==
  IF Forced /\ fb.drain = 0 THEN AfterBounded(BoundedPrefill(st))
  ELSE Contended(st)

---------------------------------------------------------------------------
(* _finish_pressure_decision                                               *)

AgesAfter(e) ==
  [s \in SeqIds |->
     IF s \notin Elems(e.waiting) THEN -1
     ELSE IF s \in Selected(e) THEN 0 ELSE SmallerOf(AgeCap, fb.age[s] + 1)]

RecentAfter(e) ==
  LET deltas == Append(fb.recent, SmallerOf(PreemptThreshold, e.preempts))
  IN  SubSeq(deltas, LargerOf(1, Len(deltas) - PreemptWindow + 1), Len(deltas))

PressureSchedule ==
  /\ ~ Static /\ ~ Mixed
  /\ \E r \in {IF Bounded THEN BoundedStep ELSE PressureStep} :
       /\ Takes(r.st)
       /\ fb' = [state |-> Classified.state, clean |-> Classified.clean,
                 recent |-> RecentAfter(r.st), age |-> AgesAfter(r.st),
                 tokens |-> r.tokens, steps |-> r.steps,
                 drain |-> r.drain, watch |-> r.watch]

---------------------------------------------------------------------------
(* Properties                                                              *)

(* A drain never outlasts its episode budget, though the step that should  *)
(* end it may find no room for a prefill.                                  *)
DrainBounded == fb.drain <= MaxDrainSteps

(* Starvation guard: when a waiting request has reached the age threshold, *)
(* the step prefills a waiting request, at the cost of running ones if     *)
(* need be (the bounded policy defers it to the end of an open episode).   *)
IsPrefill(e) == e.batch # << >> /\ \A k \in DOMAIN e.batch :
                                     e.batch[k].phase = "prefill"
ForcedServed ==
  [][PressureSchedule /\ Forced /\ (Bounded => fb.drain = 0) => IsPrefill(st')]_vars

(* SLO guard: an episode during which the deadline of a watched sequence   *)
(* passes without that sequence having made progress ends with this step.  *)
OverdueEndsDrain ==
  [][PressureSchedule /\ fb.drain > 0 /\ fb.watch \intersect late # {}
       => fb'.drain = 0 /\ (st.waiting # << >> => IsPrefill(st'))]_vars
=============================================================================
