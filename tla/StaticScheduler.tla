---------------------------- MODULE StaticScheduler ----------------------------
(***************************************************************************)
(* The two policies without feedback, prefill_first and                    *)
(* decode_first_budgeted: Scheduler._schedule_impl.  An attempt that       *)
(* selects nothing leaves what it did behind, preemptions included, and    *)
(* the next attempt starts from that.                                      *)
(***************************************************************************)
EXTENDS SchedulerState

Rotate == Policy = "decode_first_budgeted"

Counted(e) == Decoding(e, Rotate /\ e.waiting # << >>)

(* Mutant: the step guard is checked off by one.                           *)
StepLeftOneMore == StepGuard = 0 \/ fb.steps <= StepGuard

StepLeft == StepGuard = 0 \/ fb.steps < StepGuard
TokensLeft == DecodeBudget - fb.tokens

FirstDecode ==
  IF ~ Rotate \/ st.running = << >> THEN st
  ELSE IF st.waiting = << >> THEN ScheduleDecode(st, DecodeBudget, TRUE)
  ELSE IF TokensLeft > 0 /\ StepLeft
       THEN ScheduleDecode(st, SmallerOf(MaxNumSeqs, TokensLeft), TRUE)
       ELSE FreeKvForWaitingHead(st)

(* The budget of the decode attempt that follows a failed prefill attempt. *)
FallbackBudget(e) ==
  IF ~ Rotate THEN MaxNumSeqs
  ELSE IF e.waiting # << >> THEN LargerOf(0, TokensLeft)
  ELSE DecodeBudget

AfterLastPrefill(e) ==
  IF e.batch # << >> THEN Prefilled(e) ELSE Outcome(e, fb.tokens, fb.steps)
AfterFallback(e) ==
  IF e.batch # << >> THEN Counted(e)
  ELSE AfterLastPrefill(SchedulePrefill(e, MaxBatched))
AfterFirstPrefill(e) ==
  IF e.batch # << >> THEN Prefilled(e)
  ELSE AfterFallback(ScheduleDecode(e, FallbackBudget(e), Rotate))
AfterFirstDecode(e) ==
  IF e.batch = << >> THEN AfterFirstPrefill(SchedulePrefill(e, MaxBatched))
  ELSE Decoding(e, st.waiting # << >>)

ScheduleImpl == AfterFirstDecode(FirstDecode)

StaticSchedule ==
  /\ Static
  /\ \E r \in {ScheduleImpl} :
       Takes(r.st) /\ fb' = [fb EXCEPT !.tokens = r.tokens, !.steps = r.steps]

---------------------------------------------------------------------------
(* Properties                                                              *)

(* Requests are served first come, first served: no request gets its first *)
(* blocks before one that arrived earlier.                                 *)
Started(e, s) ==
  s \in e.finished \/ e.table[s] # << >> \/ e.len[s] > e.plen[s]
FirstServiceInOrder ==
  Static => \A s, t \in SeqIds : s < t /\ Started(st, t) => Started(st, s)

(* decode_first_budgeted owes the waiting head a prefill: while requests   *)
(* wait, decode gets at most decode_token_budget tokens and, when it is    *)
(* set, decode_step_guard steps before the next prefill batch.             *)
DecodeBounded ==
  Rotate /\ st.waiting # << >> =>
    /\ fb.tokens <= DecodeBudget
    /\ StepGuard > 0 => fb.steps <= StepGuard
=============================================================================
