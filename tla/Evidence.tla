-------------------------------- MODULE Evidence --------------------------------
(***************************************************************************)
(* A run with admission control and the replay of its evidence.  The loop  *)
(* of benchmark/open_loop.py writes an event for every decision about a    *)
(* request, with the time it was taken; aggregate_stage11.py and, for the  *)
(* slack aware policy, aggregate_stage12.py rebuild queue, reservations,   *)
(* token counts and predictions from the events and accept or refuse them. *)
(* Module Admission has the same loop with its engine and without a clock; *)
(* here the engine is any with one of the static policies, which steps     *)
(* either prefill or decode some of the admitted requests, and a preview   *)
(* finds any number of shared blocks.  An admission event and the cache    *)
(* event recorded next to it are one record.                               *)
(***************************************************************************)
EXTENDS Integers, FiniteSets, Sequences, SequencesExt

CONSTANTS
  Policies,   \* admission policies
  Arrival,    \* request -> arrival_time; requests are numbered in this order
  Full,       \* request -> required_blocks
  MaxOutput,  \* request -> max_output_tokens
  Capacity,   \* total_kv_blocks
  MaxWait,    \* max_queue_wait_seconds
  EtaPrefill, EtaDecode, EtaMargin,  \* of the slack aware policy
  MaxRun,     \* max_run_seconds
  MaxStep     \* bound: ticks of the clock a step may take

Request == DOMAIN Arrival
None == "None"   \* no terminal_state, no reason
NoTime == -1

VARIABLES
  policy,   \* AdmissionConfig.policy
  now,      \* the last reading of the clock
  arrived,  \* requests 1..arrived have left pending
  queue,    \* admission_queue
  active,   \* reserved_by_request and reservation_runtime, in their order
  record,   \* request -> RequestRecord
  events,   \* admission_events with cache_events
  slacks,   \* slack_events
  steps,    \* step_events
  peak,     \* peak_reserved_blocks
  longest,  \* max_queue_wait_seconds of the controller
  loop      \* "top", "admit", "failed" (an exception), "cut" (max_run_seconds)
            \* or "closed"

state == <<arrived, queue, active, record, peak, longest>>
logs == <<events, slacks, steps>>
vars == <<policy, now, state, logs, loop>>

Init ==
  /\ policy \in Policies
  /\ now = 0 /\ arrived = 0 /\ queue = << >> /\ active = << >>
  /\ record = [r \in Request |-> [admitted |-> NoTime, tokens |-> << >>, state |-> None,
                                  ended |-> NoTime, reason |-> None]]
  /\ events = << >> /\ slacks = << >> /\ steps = << >>
  /\ peak = 0 /\ longest = 0 /\ loop = "top"

LargerOf(a, b) == IF a > b THEN a ELSE b
Blocks(runtimes) == FoldLeft(LAMBDA sum, a : sum + a.blocks, 0, runtimes)
Slack == policy = "slack_aware_prefix_fifo"

(* reservation_blocks, with a preview that leaves so many blocks to reserve *)
Reservation(r, incremental) == IF policy = "kv_aware_fifo" THEN Full[r] ELSE incremental

---------------------------------------------------------------------------
(* SlackEstimator                                                          *)

PredictReleaseAt(a) ==
  IF a.tokens = 0
  THEN a.at + EtaPrefill + MaxOutput[a.request] * EtaDecode + EtaMargin
  ELSE LargerOf(a.last, a.at + EtaPrefill)
       + (MaxOutput[a.request] - a.tokens) * EtaDecode + EtaMargin

(* The first of the predicted releases, in their order, by which enough    *)
(* blocks are released; NoTime when all of them are too few.               *)
EarliestCapacityTime(runtimes, shortfall) ==
  LET time(i) == PredictReleaseAt(runtimes[i])
      upTo(i) == {j \in DOMAIN runtimes :
                    time(j) < time(i) \/ (time(j) = time(i) /\ j <= i)}
      released(i) == Blocks(SetToSeq({[i |-> j, blocks |-> runtimes[j].blocks] : j \in upTo(i)}))
      enough == {i \in DOMAIN runtimes : released(i) >= shortfall}
  IN  IF enough = {} THEN [at |-> NoTime, blocks |-> 0]
      ELSE LET i == CHOOSE i \in enough : \A j \in enough : i \in upTo(j)
           IN  [at |-> time(i), blocks |-> released(i)]

---------------------------------------------------------------------------
(* The loop.                                                               *)

Event(action, r, at, wait, incremental, after, reason) ==
  [action |-> action, request |-> r, at |-> at, wait |-> wait,
   incremental |-> incremental, blocks |-> Reservation(r, incremental),
   after |-> Blocks(after), reason |-> reason]

EngineFinished == active = << >>

Turn ==
  /\ loop = "top" /\ (arrived < Len(Arrival) \/ queue # << >> \/ ~ EngineFinished)
  /\ \E elapsed \in {now, now + 1} :
       /\ now' = elapsed
       /\ IF elapsed >= MaxRun
          THEN loop' = "cut" /\ UNCHANGED <<arrived, queue>>
          ELSE /\ loop' = "admit"
               /\ arrived' = Cardinality({r \in Request : Arrival[r] <= elapsed})
               /\ queue' = queue \o [i \in 1..(arrived' - arrived) |-> arrived + i]
  /\ UNCHANGED <<policy, active, record, peak, longest, logs>>

Wait(r) == now - Arrival[r]
Fits(r, incremental) == Blocks(active) + Reservation(r, incremental) <= Capacity

(* What slack_estimator says of a head that does not fit.                  *)
Prediction(r, incremental) ==
  EarliestCapacityTime(active, Blocks(active) + Reservation(r, incremental) - Capacity)

MissPredicted(r, incremental) ==
  Slack /\ Prediction(r, incremental).at > Arrival[r] + MaxWait

Reject(r, incremental, reason) ==
  /\ queue' = Tail(queue) /\ longest' = LargerOf(longest, Wait(r))
  /\ events' = Append(events, Event("rejected", r, now, Wait(r), incremental, active, reason))
  /\ record' = [record EXCEPT ![r].state = "Rejected", ![r].ended = now, ![r].reason = reason]
  /\ UNCHANGED <<policy, now, arrived, active, peak, steps, loop>>

SlackEvent(r, incremental) ==
  [request |-> r, at |-> now, event |-> Len(events) + 1, incremental |-> incremental,
   before |-> Blocks(active), shortfall |-> Blocks(active) + incremental - Capacity,
   free |-> Prediction(r, incremental), active |-> active]

Admitted(r, incremental) ==
  /\ queue' = Tail(queue) /\ longest' = LargerOf(longest, Wait(r))
  /\ active' = Append(active, [request |-> r, blocks |-> Reservation(r, incremental),
                               incremental |-> incremental, at |-> now,
                               tokens |-> 0, last |-> NoTime])
  /\ peak' = LargerOf(peak, Blocks(active'))
  /\ record' = [record EXCEPT ![r].admitted = now]
  /\ events' = Append(events, Event("admitted", r, now, Wait(r), incremental, active', None))
  /\ UNCHANGED <<policy, now, arrived, slacks, steps, loop>>

(* One pass of the inner loop; a preview never matches the last block.     *)
Admit ==
  /\ loop = "admit" /\ queue # << >>
  /\ LET r == Head(queue)
     IN  \E incremental \in 1..Full[r] :
           \/ /\ Wait(r) >= MaxWait
              /\ Reject(r, incremental, "kv_reservation_timeout") /\ UNCHANGED slacks
           \/ /\ Wait(r) < MaxWait /\ Fits(r, incremental)
              /\ Admitted(r, incremental)
           \/ /\ Wait(r) < MaxWait /\ ~ Fits(r, incremental) /\ MissPredicted(r, incremental)
              /\ Reject(r, incremental, "predicted_deadline_miss")
              /\ slacks' = Append(slacks, SlackEvent(r, incremental))

(* What the pass found in the end: nothing queued, or a head that waits.   *)
HeadWaits ==
  queue # << >> =>
    /\ Wait(Head(queue)) < MaxWait
    /\ \E incremental \in 1..Full[Head(queue)] :
         ~ Fits(Head(queue), incremental) /\ ~ MissPredicted(Head(queue), incremental)

Idle ==
  /\ loop = "admit" /\ HeadWaits /\ EngineFinished
  /\ loop' = "top"
  /\ now' = IF arrived < Len(Arrival) THEN LargerOf(now, Arrival[arrived + 1]) ELSE now
  /\ UNCHANGED <<policy, state, logs>>

(* A step prefills the oldest requests without a token, a single one       *)
(* perhaps by a chunk that emits none, or decodes some that have one (one  *)
(* that was preempted sits out some steps, and its prefill is a decode to  *)
(* the log).  The loop writes an event of each.  Beside the six keys that  *)
(* every event has, those of a prefill have prefill_kind with two more,    *)
(* and all have scheduler_step_index with three more, for the scheduler    *)
(* counts its steps under every policy.                                    *)
(* A prompt's tokens are counted by its blocks, those of a chunk as one.   *)
Served(a, phase, chunk) ==
  [request |-> a.request, phase |-> phase,
   scheduled |-> IF phase = "prefill" /\ ~ chunk THEN Full[a.request] ELSE 1,
   emitted |-> ~ chunk, finished |-> ~ chunk /\ a.tokens + 1 = MaxOutput[a.request],
   further |-> {"scheduler_step_index"}
                 \union IF phase = "prefill" THEN {"prefill_kind"} ELSE {}]

Batches(phase, chosen) ==
  IF phase = "decode" THEN \A i \in chosen : active[i].tokens > 0
  ELSE \A i \in chosen : /\ active[i].tokens = 0
                          /\ \A j \in 1..(i - 1) : active[j].tokens = 0 => j \in chosen

Scheduled(served) == MapThenSumSet(LAMBDA e : e.scheduled, served)

(* The requests that emit; those with all their tokens are finished, and   *)
(* released in the order of the events.                                    *)
Emitted(a, emits, at) ==
  IF a.request \in emits THEN [a EXCEPT !.tokens = @ + 1, !.last = at] ELSE a

IsOver(a) == a.tokens = MaxOutput[a.request]

Releases(over, left, at, reason) ==
  [i \in DOMAIN over |->
     Event("released", over[i].request, at, NoTime, over[i].incremental,
           left \o SubSeq(over, i + 1, Len(over)), reason)]

Step ==
  /\ loop = "admit" /\ HeadWaits /\ ~ EngineFinished
  /\ \E chosen \in (SUBSET DOMAIN active) \ {{}}, phase \in {"prefill", "decode"},
        chunk \in BOOLEAN, ticks \in 1..MaxStep :
       LET at == now + ticks
           batch == {Served(active[i], phase, chunk) : i \in chosen}
           emits == {e.request : e \in {b \in batch : b.emitted}}
           served == [i \in DOMAIN active |-> Emitted(active[i], emits, at)]
           left == SelectSeq(served, LAMBDA a : ~ IsOver(a))
           done == SelectSeq(served, IsOver)
       IN  /\ Batches(phase, chosen) /\ (chunk => phase = "prefill" /\ Cardinality(chosen) = 1)
           /\ now' = at
           /\ active' = left
           /\ record' = [r \in Request |->
                [record[r] EXCEPT
                   !.tokens = IF r \in emits THEN Append(@, at) ELSE @,
                   !.state = IF \E e \in batch : e.request = r /\ e.finished
                            THEN "Finished" ELSE @,
                   !.ended = IF \E e \in batch : e.request = r /\ e.finished
                            THEN at ELSE @]]
           /\ events' = events \o Releases(done, left, at, None)
           /\ steps' = Append(steps, [started |-> now, finished |-> at, phase |-> phase,
                                      scheduled |-> Scheduled(batch), events |-> batch])
  /\ loop' = "top"
  /\ UNCHANGED <<policy, arrived, queue, peak, longest, slacks>>

(* An exception: of the step, or of add_request, whose reservation is      *)
(* released at once.                                                       *)
Raise ==
  /\ loop = "admit" /\ loop' = "failed"
  /\ \/ HeadWaits /\ ~ EngineFinished /\ UNCHANGED <<active, events>>
     \/ /\ active # << >> /\ Last(active).at = now /\ Last(active).tokens = 0
        /\ Last(events).action = "admitted"
        /\ active' = Front(active)
        /\ events' = Append(events,
             Event("released", Last(active).request, now, NoTime,
                   Last(active).incremental, Front(active), "engine_add_error"))
  /\ UNCHANGED <<policy, now, arrived, queue, record, peak, longest, slacks, steps>>

Unserved(r) ==
  IF loop # "failed" THEN "Unfinished"
  ELSE IF record[r].admitted # NoTime THEN "Failed" ELSE "Cancelled"

(* Mutant: the end of max_run_seconds has nothing to clean up.             *)
CleanupOfErrors(at, reason) ==
  IF reason = "timeout_cleanup" THEN << >>
  ELSE [i \in DOMAIN active |->
          Event("released", active[i].request, at, NoTime, active[i].incremental,
                SubSeq(active, i + 1, Len(active)), reason)]

Cleanup(at, reason) ==
  [i \in DOMAIN active |->
     Event("released", active[i].request, at, NoTime, active[i].incremental,
           SubSeq(active, i + 1, Len(active)), reason)]

(* After the loop: reservations are released, open records are closed.     *)
Close ==
  /\ \/ loop \in {"cut", "failed"}
     \/ loop = "top" /\ arrived = Len(Arrival) /\ queue = << >> /\ EngineFinished
  /\ LET at == IF now < MaxRun THEN now ELSE MaxRun
         reason == IF loop = "failed" THEN "error_cleanup" ELSE "timeout_cleanup"
     IN  /\ events' = events \o Cleanup(at, reason)
         /\ record' = [r \in Request |->
              IF record[r].state # None THEN record[r]
              ELSE [record[r] EXCEPT !.state = Unserved(r),
                                     !.ended = LargerOf(at, Arrival[r])]]
  /\ active' = << >> /\ loop' = "closed"
  /\ UNCHANGED <<policy, now, arrived, queue, peak, longest, slacks, steps>>

Closed == loop = "closed" /\ UNCHANGED vars

Next == Turn \/ Admit \/ Idle \/ Step \/ Raise \/ Close \/ Closed

Spec == Init /\ [][Next]_vars /\ WF_vars(Next)

---------------------------------------------------------------------------
(* The replay of the admission events.                                     *)

StartOfReplay ==
  [ok |-> TRUE, at |-> 0, queue |-> << >>, cursor |-> 0, active |-> << >>,
   rejected |-> {}, reserved |-> 0, peak |-> 0, longest |-> 0]

Joined(q, at) ==
  LET due == Cardinality({r \in Request : r > q.cursor /\ Arrival[r] <= at})
  IN  [q EXCEPT !.queue = @ \o [i \in 1..due |-> q.cursor + i], !.cursor = @ + due]

Replayed(q, e) ==
  CASE e.action = "admitted" ->
         [q EXCEPT !.queue = Tail(@), !.at = e.at, !.reserved = @ + e.blocks,
                   !.active = [r \in DOMAIN @ \union {e.request} |->
                                 IF r = e.request THEN e.incremental ELSE @[r]],
                   !.peak = LargerOf(@, q.reserved + e.blocks),
                   !.longest = LargerOf(@, e.wait)]
    [] e.action = "rejected" ->
         [q EXCEPT !.queue = Tail(@), !.at = e.at, !.rejected = @ \union {e.request},
                   !.longest = LargerOf(@, e.wait)]
    [] e.action = "released" ->
         [q EXCEPT !.at = e.at,
                   !.reserved = @ - Reservation(e.request, q.active[e.request]),
                   !.active = [r \in DOMAIN @ \ {e.request} |-> @[r]]]

OfHead(q, e) ==
  q.queue # << >> /\ Head(q.queue) = e.request /\ e.wait = e.at - Arrival[e.request]

AdmissionAccepted(q, e) ==
  /\ OfHead(q, e) /\ e.reason = None
  /\ e.request \notin DOMAIN q.active \union q.rejected
  /\ e.wait < MaxWait /\ q.reserved + e.blocks <= Capacity

TimeoutAccepted(q, e) ==
  /\ OfHead(q, e) /\ e.request \notin DOMAIN q.active
  /\ e.reason = "kv_reservation_timeout" /\ e.wait >= MaxWait

EarlyAccepted(q, e) ==
  /\ OfHead(q, e) /\ e.request \notin DOMAIN q.active
  /\ e.reason = "predicted_deadline_miss" /\ e.wait < MaxWait

(* The event repeats what was previewed when the request was admitted.     *)
ReleaseAccepted(q, e) ==
  /\ e.wait = NoTime /\ e.request \in DOMAIN q.active
  /\ e.incremental = q.active[e.request]

(* validate_events of Stage 11 takes a release with any reason.            *)
EventAccepted(q, e) ==
  /\ e.at >= q.at /\ e.at >= Arrival[e.request]
  /\ CASE e.action = "admitted" -> AdmissionAccepted(q, e)
       [] e.action = "rejected" -> TimeoutAccepted(q, e) \/ (Slack /\ EarlyAccepted(q, e))
       [] e.action = "released" -> ReleaseAccepted(q, e) /\ (Slack => e.reason = None)
  /\ e.after = Replayed(q, e).reserved /\ e.after >= 0

Replay ==
  FoldLeft(LAMBDA q, e :
             IF ~ q.ok THEN q
             ELSE IF EventAccepted(Joined(q, e.at), e) THEN Replayed(Joined(q, e.at), e)
             ELSE [q EXCEPT !.ok = FALSE],
           StartOfReplay, events)

BackToZero(q) ==
  q.ok /\ q.active = << >> /\ q.queue = << >> /\ q.cursor = Len(Arrival) /\ q.reserved = 0

Own(r) == SelectSeq(events, LAMBDA e : e.request = r)

Lifecycle(r) ==
  LET own == Own(r)
  IN  CASE record[r].state = "Finished" ->
             /\ Len(own) = 2 /\ own[1].action = "admitted" /\ own[2].action = "released"
             /\ own[1].at = record[r].admitted
        [] record[r].state = "Rejected" ->
             Len(own) = 1 /\ own[1].action = "rejected" /\ own[1].at = record[r].ended
        [] OTHER -> FALSE

---------------------------------------------------------------------------
(* validate_raw of aggregate_stage9.py, which Stage 11 takes over, and of  *)
(* Stage 12: steps and records.                                            *)

(* Every event has the six keys and no more.                               *)
SchemaAccepted ==
  \A i \in DOMAIN steps : \A e \in steps[i].events : e.further = {}

PhasesAgree ==
  \A i \in DOMAIN steps :
    /\ steps[i].phase \in {"prefill", "decode"}
    /\ \A e \in steps[i].events : e.phase = steps[i].phase

(* When the steps finished in which an event of the request says so.       *)
TimesOf(r, Says(_)) ==
  LET saying == SelectSeq(steps, LAMBDA s : \E e \in s.events : e.request = r /\ Says(e))
  IN  [i \in DOMAIN saying |-> saying[i].finished]

EmittedAt(r) == TimesOf(r, LAMBDA e : e.emitted)
FinishedAt(r) == TimesOf(r, LAMBDA e : e.finished)

RecordAccepted(r) ==
  LET q == record[r]
  IN  CASE q.state = "Finished" ->
             /\ q.reason = None
             /\ \A t \in {q.admitted, q.ended} \union ToSet(q.tokens) : t >= Arrival[r]
             /\ Len(q.tokens) = MaxOutput[r]
             /\ \A i, j \in DOMAIN q.tokens : i < j => q.tokens[i] <= q.tokens[j]
             /\ Len(EmittedAt(r)) = Len(q.tokens) /\ Len(FinishedAt(r)) = 1
        [] q.state = "Rejected" ->
             /\ q.admitted = NoTime /\ q.tokens = << >> /\ q.ended >= Arrival[r]
             /\ EmittedAt(r) = << >> /\ FinishedAt(r) = << >>
             /\ q.reason \in {"kv_reservation_timeout"}
                  \union IF Slack THEN {"predicted_deadline_miss"} ELSE {}
        [] OTHER -> FALSE

(* Stage 9 lets a record end later than its last token.                    *)
EndsAfterTokens(r) ==
  record[r].state = "Finished" => record[r].ended >= Last(record[r].tokens)

(* The checks of Stage 11 but for the schema; validate_events recomputes   *)
(* the peak and the longest wait.                                          *)
Stage11Replays ==
  /\ PhasesAgree /\ \A r \in Request : RecordAccepted(r) /\ EndsAfterTokens(r)
  /\ BackToZero(Replay) /\ \A r \in Request : Lifecycle(r)
  /\ Replay.peak = peak /\ Replay.longest = longest

---------------------------------------------------------------------------
(* Stage 12: besides, steps follow each other and fall between admission   *)
(* and release, records agree with the steps in time, and every early      *)
(* rejection is computed again.                                            *)

StepsInOrder ==
  \A i \in DOMAIN steps :
    /\ steps[i].finished >= steps[i].started
    /\ i > 1 => steps[i].finished >= steps[i - 1].finished
    /\ steps[i].scheduled = Scheduled(steps[i].events)

TimesAgree(r) ==
  record[r].state = "Finished" =>
    record[r].tokens = EmittedAt(r) /\ record[r].ended = FinishedAt(r)[1]

StepsWith(r) == {i \in DOMAIN steps : \E e \in steps[i].events : e.request = r}

InsideAdmission(r) ==
  IF record[r].state = "Rejected" THEN StepsWith(r) = {}
  ELSE /\ Own(r)[2].at = record[r].ended
       /\ \A i \in StepsWith(r) :
            steps[i].started >= Own(r)[1].at /\ steps[i].finished <= Own(r)[2].at

(* Mutant: a step that ends when the decision is taken is not counted.     *)
StepsBeforeExcluded(r, at) ==
  {i \in DOMAIN steps : /\ steps[i].finished < at
                        /\ \E e \in steps[i].events : e.request = r /\ e.emitted}

(* The steps finished by then that emitted a token of the request.         *)
StepsBefore(r, at) ==
  {i \in DOMAIN steps : /\ steps[i].finished <= at
                        /\ \E e \in steps[i].events : e.request = r /\ e.emitted}

(* reservation_runtime as it was when an event was recorded.               *)
RuntimesBefore(event, at) ==
  LET open == FoldLeft(LAMBDA a, e :
                CASE e.action = "admitted" -> Append(a, e)
                  [] e.action = "released" -> SelectSeq(a, LAMBDA x : x.request # e.request)
                  [] OTHER -> a,
                << >>, SubSeq(events, 1, event - 1))
      seen(r) == StepsBefore(r, at)
  IN  [i \in DOMAIN open |->
         [request |-> open[i].request, blocks |-> open[i].blocks,
          incremental |-> open[i].incremental, at |-> open[i].at,
          tokens |-> Cardinality(seen(open[i].request)),
          last |-> IF seen(open[i].request) = {} THEN NoTime
                   ELSE steps[CHOOSE n \in seen(open[i].request) :
                                \A m \in seen(open[i].request) : m <= n].finished]]

SlackAccepted(s) ==
  LET e == events[s.event]
      r == s.request
      runtimes == RuntimesBefore(s.event, s.at)
      shortfall == Blocks(runtimes) + e.incremental - Capacity
  IN  /\ e.action = "rejected" /\ e.request = r /\ e.at = s.at
      /\ e.reason = "predicted_deadline_miss"
      /\ s.active = runtimes /\ s.before = Blocks(runtimes)
      /\ s.incremental = e.incremental /\ e.after = Blocks(runtimes)
      /\ shortfall > 0 /\ s.shortfall = shortfall
      /\ s.free # [at |-> NoTime, blocks |-> 0]
      /\ s.free = EarliestCapacityTime(runtimes, shortfall)
      /\ s.at < Arrival[r] + MaxWait /\ s.free.at > Arrival[r] + MaxWait
      /\ record[r].state = "Rejected" /\ record[r].ended = s.at
      /\ record[r].reason = "predicted_deadline_miss"

(* validate_run_artifacts: early rejections and slack events pair up.      *)
EarlyPaired ==
  /\ {slacks[i].event : i \in DOMAIN slacks} =
       {i \in DOMAIN events : events[i].reason = "predicted_deadline_miss"}
  /\ \A i \in DOMAIN slacks : i > 1 => slacks[i].event > slacks[i - 1].event

(* The checks of Stage 12 but for the schema.                              *)
Stage12Replays ==
  /\ PhasesAgree /\ StepsInOrder
  /\ \A r \in Request : RecordAccepted(r) /\ TimesAgree(r)
  /\ BackToZero(Replay) /\ \A r \in Request : Lifecycle(r) /\ InsideAdmission(r)
  /\ \A i \in DOMAIN slacks : SlackAccepted(slacks[i])
  /\ EarlyPaired

Replays == IF Slack THEN Stage12Replays ELSE Stage11Replays
Accepted == SchemaAccepted /\ Replays

---------------------------------------------------------------------------
(* Properties.                                                             *)

Complete == \A r \in Request : record[r].state \in {"Finished", "Rejected"}

(* The evidence of every run in which all requests came to their end       *)
(* replays: queue order, waits, reservations, token counts, predictions    *)
(* and shortfalls are computed again from the events alone, with the       *)
(* decisions the loop took at the time.  It is refused all the same, for   *)
(* keys the validators do not know, once the engine has taken a step.      *)
EvidenceReplays ==
  loop = "closed" /\ Complete => Replays /\ (Accepted <=> steps = << >>)

(* Requests after..upTo, in the order of their arrival.                    *)
Arriving(after, upTo) == [i \in 1..LargerOf(upTo - after, 0) |-> after + i]

(* The events are taken as they are, whether a validator accepts them.     *)
Followed ==
  FoldLeft(LAMBDA q, e :
             LET p == Joined(q, e.at)
             IN  IF ~ q.ok \/ (e.action = "released" /\ e.request \notin DOMAIN p.active)
                 THEN [q EXCEPT !.ok = FALSE]
                 ELSE [Replayed(p, e) EXCEPT !.ok = e.after = Replayed(p, e).reserved],
           StartOfReplay, events)

(* The log says at any time what the loop holds, also while it runs, and   *)
(* after an error or the end of max_run_seconds: the reservations, their   *)
(* order, times and token counts follow from the admission events and the  *)
(* steps, and the queue from the events and the arrivals.                  *)
LogFollowsLoop ==
  /\ Followed.ok /\ Followed.reserved = Blocks(active)
  /\ RuntimesBefore(Len(events) + 1, now) = active
  /\ Followed.queue \o Arriving(Followed.cursor, arrived)
       = queue \o Arriving(arrived, Followed.cursor)
=============================================================================
