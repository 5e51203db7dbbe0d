------------------------------- MODULE Scheduler -------------------------------
(***************************************************************************)
(* The scheduler of nanovllm/engine/scheduler.py with its eight policies:  *)
(* Scheduler.schedule hands a step to the policy of the engine.            *)
(***************************************************************************)
EXTENDS StaticScheduler, MixedScheduler, PressureScheduler

Schedule == StaticSchedule \/ MixedSchedule \/ PressureSchedule

Next == AddRequest \/ DeadlinePasses \/ Schedule \/ Postprocess \/ Drained

(* The serving loop steps the engine while it has work; arrivals, passing  *)
(* deadlines and end tokens are not owed to anybody.  The conjuncts are    *)
(* WF_vars(Schedule) and WF_vars(Postprocess) with their ENABLED written   *)
(* out as the guards, which TLC would otherwise evaluate by running a      *)
(* whole schedule().                                                       *)
Fairness ==
  /\ []<>(~ CanSchedule) \/ []<><<Schedule>>_vars
  /\ []<>(st.batch = << >>) \/ []<><<Postprocess>>_vars

Spec == Init /\ [][Next]_vars /\ Fairness

---------------------------------------------------------------------------
(* Properties; SchedulerCore explains the ones on the engine record, the   *)
(* policy modules have those of single policies.                           *)

TypeOK ==
  /\ EngineTyped(st)
  /\ arrived \in 0..NumSeqs /\ late \subseteq 1..arrived /\ failed \in BOOLEAN
  /\ fb.tokens \in Nat /\ fb.steps \in Nat /\ fb.age \in [SeqIds -> Nat \union {-1}]
  /\ fb.state \in States /\ fb.clean \in 0..HysteresisSteps
  /\ fb.recent \in Seq(0..PreemptThreshold) /\ Len(fb.recent) <= PreemptWindow
  /\ fb.drain \in Nat /\ fb.watch \subseteq SeqIds

(* The engine record is sound: its queues hold every live request once,    *)
(* its blocks are accounted for, and the batch is backed by blocks and     *)
(* within the budgets.                                                     *)
EngineSound == TypeOK /\ EngineSoundIn(st, arrived)

(* Work that fits the KV cache never makes schedule() raise "Scheduler     *)
(* cannot make progress": whatever is resident, some sequence can be       *)
(* prefilled, decoded or preempted.                                        *)
AlwaysProgress == ~ failed

Server == INSTANCE Serving WITH
  Requests <- SeqIds,
  limit <- st.maxTokens,
  state <- [s \in SeqIds |-> IF s > arrived THEN "absent"
                             ELSE IF s \in st.finished THEN "finished"
                             ELSE "live"],
  emitted <- [s \in SeqIds |-> st.len[s] - st.plen[s]]

(* The engine keeps the promise of module Serving: tokens come one at a    *)
(* time, preemption loses none, nothing is emitted after the end.          *)
ServesRequests == Server!Spec

(* Every request that arrives is finished, however often it is preempted:  *)
(* no policy lets two requests preempt each other for ever or drains one   *)
(* at the price of another.                                                *)
EventuallyFinished == Server!AllFinish
=============================================================================
