------------------------------- MODULE Admission -------------------------------
(***************************************************************************)
(* run_open_loop of benchmark/open_loop.py: the loop that moves requests   *)
(* from the trace into the admission queue, reserves KV blocks for them    *)
(* (KVAdmissionController), hands them to one engine and steps it, and     *)
(* gives every request one terminal state (RequestRecord).  The engine is  *)
(* module StaticScheduler.  Requests are numbered by arrival, which is the *)
(* order of admission, so a number stands for the engine's seq_id too.     *)
(* The clock is abstracted to its effects: which requests have arrived,    *)
(* how many of those at the head have waited too long, whether a predicted *)
(* release comes after a deadline, and whether max_run_seconds is over.    *)
(***************************************************************************)
EXTENDS SchedulerCore

CONSTANTS
  AdmissionPolicies,       \* what AdmissionConfig.policy may be; its
                           \* total_kv_blocks is NumBlocks
  DecodeBudget, StepGuard, \* of the engine, see SchedulerState
  IgnoreEos

(* config.py accepts decode_first_budgeted only with a decode budget.      *)
ASSUME AdmissionAssumption ==
  /\ AdmissionPolicies \subseteq {"disabled", "kv_aware_fifo",
                                  "prefix_aware_fifo", "slack_aware_prefix_fifo"}
  /\ \A config \in Configs :
       config.policy \in {"prefill_first", "decode_first_budgeted"}
  /\ DecodeBudget \in Nat /\ StepGuard \in Nat /\ IgnoreEos \in BOOLEAN
  /\ (\E config \in Configs : config.policy = "decode_first_budgeted") =>
       DecodeBudget > 0

VARIABLES
  policy,    \* AdmissionConfig.policy of this run
  st, fb, failed,  \* the engine, see SchedulerState
  arrived,   \* requests 1..arrived have left "pending"
  queue,     \* admission_queue
  late,      \* at the head of queue, so many have waited max_queue_wait_seconds
  reserved,  \* reserved_by_request, a function on the requests that hold some
  admitted,  \* requests with admitted_at
  terminal,  \* request -> terminal_state
  loop       \* where the loop is: "top", "admit", "model" (the engine's step
             \* is under way), "raised" (an exception left it), "closed"

engine == <<st, fb, failed>>
books == <<policy, reserved, admitted, terminal>>
vars == <<engine, arrived, queue, late, books, loop>>

Engine == INSTANCE StaticScheduler WITH
  arrived <- Cardinality(admitted), late <- {}

None == "None"
TerminalStates == {"Finished", "Rejected", "Failed", "Cancelled", "Unfinished"}

Init ==
  /\ \E config \in Configs, kind \in [SeqIds -> Kinds] :
       st = Fresh(config, kind)
  /\ policy \in AdmissionPolicies
  /\ fb = Engine!NoFeedback /\ failed = FALSE
  /\ arrived = 0 /\ queue = << >> /\ late = 0
  /\ reserved = << >> /\ admitted = {}
  /\ terminal = [r \in SeqIds |-> None]
  /\ loop = "top"

---------------------------------------------------------------------------
(* KVAdmissionController                                                   *)

Enabled == policy # "disabled"
PrefixAware == policy \in {"prefix_aware_fifo", "slack_aware_prefix_fifo"}

(* Mutant: a block that is not filled completely is not reserved.          *)
RequiredRoundedDown(r) == (st.plen[r] + st.maxTokens[r] - 1) \div BlockSize

RequiredBlocks(r) == BlocksFor(st.plen[r] + st.maxTokens[r] - 1)

ReservationBlocks(r) ==
  IF PrefixAware
  THEN PreviewPrefixCache(st.pool, Toks(st, r), st.maxTokens[r]).incremental
  ELSE RequiredBlocks(r)

ReservedBlocks ==
  LET f[n \in 0..NumSeqs] ==
        IF n = 0 THEN 0
        ELSE f[n - 1] + IF n \in DOMAIN reserved THEN reserved[n] ELSE 0
  IN  f[NumSeqs]

(* Mutant: what others have reserved is forgotten.                         *)
CanAdmitAlone(r) == ReservationBlocks(r) <= NumBlocks

CanAdmit(r) == Enabled => ReservedBlocks + ReservationBlocks(r) <= NumBlocks

Reserve(r) ==
  IF ~ Enabled THEN reserved
  ELSE [q \in DOMAIN reserved \union {r} |->
          IF q = r THEN ReservationBlocks(r) ELSE reserved[q]]

(* Mutant: the reservation of a finished request is kept.                  *)
ReleasedNever(requests) == reserved

ReleasedFor(requests) == [q \in DOMAIN reserved \ requests |-> reserved[q]]

---------------------------------------------------------------------------
(* The loop.                                                               *)

EngineFinished == st.waiting = << >> /\ st.running = << >>

(* The clock is read once per turn: requests that have arrived meanwhile   *)
(* join the queue, and some at its head, which wait longest, are late.     *)
Turn ==
  /\ loop = "top"
  /\ arrived < NumSeqs \/ queue # << >> \/ ~ EngineFinished
  /\ \E n \in arrived..NumSeqs :
       /\ arrived' = n
       /\ queue' = queue \o [i \in 1..(n - arrived) |-> arrived + i]
       /\ late' \in late..Len(queue')
  /\ loop' = "admit"
  /\ UNCHANGED <<engine, books>>

Expired == Enabled /\ late > 0

Reject(r) ==
  /\ queue' = Tail(queue)
  /\ terminal' = [terminal EXCEPT ![r] = "Rejected"]
  /\ UNCHANGED <<engine, policy, arrived, reserved, admitted, loop>>

(* "kv_reservation_timeout"                                                *)
RejectLate ==
  /\ loop = "admit" /\ queue # << >> /\ Expired
  /\ Reject(Head(queue))
  /\ late' = late - 1

(* "predicted_deadline_miss": the head does not fit, and the releases that *)
(* would make room are predicted to come after its deadline.               *)
RejectEarly ==
  /\ loop = "admit" /\ queue # << >> /\ ~ Expired
  /\ policy = "slack_aware_prefix_fifo" /\ ~ CanAdmit(Head(queue))
  /\ Reject(Head(queue))
  /\ UNCHANGED late

Admitting ==
  /\ loop = "admit" /\ queue # << >> /\ ~ Expired /\ CanAdmit(Head(queue))
  /\ queue' = Tail(queue)
  /\ late' = LargerOf(0, late - 1)
  /\ admitted' = admitted \union {Head(queue)}
  /\ UNCHANGED <<policy, arrived, terminal, failed>>

Admit ==
  /\ Admitting
  /\ reserved' = Reserve(Head(queue))
  /\ st' = Added(st, Head(queue))
  /\ fb' = IF st.policy = "decode_first_budgeted" /\ st.waiting = << >>
           THEN [fb EXCEPT !.tokens = 0, !.steps = 0] ELSE fb
  /\ UNCHANGED loop

(* engine.add_request raises: the reservation is released again.           *)
AdmitFails ==
  /\ Admitting
  /\ loop' = "raised"
  /\ UNCHANGED <<st, reserved, fb>>

HeadBlocked ==
  queue # << >> => ~ Expired /\ ~ CanAdmit(Head(queue))

(* Nothing to step: the loop sleeps until the next arrival.                *)
Idle ==
  /\ loop = "admit" /\ HeadBlocked /\ EngineFinished
  /\ loop' = "top"
  /\ UNCHANGED <<engine, arrived, queue, late, books>>

Step ==
  /\ loop = "admit" /\ HeadBlocked
  /\ UNCHANGED <<arrived, queue, late, books>>
  /\ Engine!StaticSchedule
  /\ loop' = IF failed' THEN "raised" ELSE "model"

(* The events of the step: a finished request becomes terminal and gives   *)
(* its blocks back; release raises when there is no reservation.           *)
Results ==
  /\ loop = "model"
  /\ UNCHANGED <<policy, arrived, queue, late, admitted>>
  /\ Engine!Postprocess
  /\ \E done \in {st'.finished \ st.finished} :
       /\ terminal' = [r \in SeqIds |-> IF r \in done THEN "Finished"
                                        ELSE terminal[r]]
       /\ reserved' = ReleasedFor(done)
       /\ loop' = IF Enabled /\ ~ (done \subseteq DOMAIN reserved)
                  THEN "raised" ELSE "top"

(* Every request is over, max_run_seconds is, or an exception was raised:  *)
(* reservations are released and records closed.                           *)
Unserved(r) ==
  IF loop # "raised" THEN "Unfinished"
  ELSE IF r \in admitted THEN "Failed" ELSE "Cancelled"

Close ==
  /\ loop \in {"top", "raised"}
  /\ loop' = "closed"
  /\ reserved' = IF loop = "raised" \/ \E r \in SeqIds : terminal[r] = None
                 THEN << >> ELSE reserved
  /\ terminal' = [r \in SeqIds |-> IF terminal[r] = None THEN Unserved(r)
                                   ELSE terminal[r]]
  /\ UNCHANGED <<engine, policy, arrived, queue, late, admitted>>

Closed == loop = "closed" /\ UNCHANGED vars

Next ==
  \/ Turn \/ RejectLate \/ RejectEarly \/ Admit \/ AdmitFails \/ Idle \/ Step
  \/ Results \/ Close \/ Closed

(* WF_vars(Next): the loop is one thread that runs until it is closed.     *)
Fairness == []<>(loop = "closed") \/ []<><<Next>>_vars

Spec == Init /\ [][Next]_vars /\ Fairness

---------------------------------------------------------------------------
(* Properties                                                              *)

(* A reservation is held exactly by the requests that were admitted and    *)
(* have no terminal state, these are the ones the engine still works on,   *)
(* and a closed run holds none and leaves no record open.                  *)
ReservationsExact ==
  /\ loop \notin {"raised", "closed"} =>
       /\ Elems(st.waiting \o st.running) = {r \in admitted : terminal[r] = None}
       /\ Enabled => DOMAIN reserved = {r \in admitted : terminal[r] = None}
  /\ loop = "closed" => /\ reserved = << >>
                        /\ \A r \in SeqIds : terminal[r] \in TerminalStates

(* The reservations cover the KV cache: the blocks in use never exceed     *)
(* what admission believes to be taken.  Stated for every policy that      *)
(* reserves, and for the one that reserves the full footprint.             *)
ReservationsCover ==
  Enabled /\ loop \notin {"raised", "closed"} =>
    Cardinality(st.pool.used) <= ReservedBlocks
FullReservationsCover == ~ PrefixAware => ReservationsCover

(* Admission by full footprint keeps KV pressure out of the engine: a      *)
(* running request is never preempted and schedule() never fails.          *)
NoPreemption == policy = "kv_aware_fifo" => st.preempts = 0 /\ ~ failed

(* Every request that has arrived gets its terminal state, although a head *)
(* that does not fit holds up the queue: reservations always come back.    *)
EventuallyTerminal == \A r \in SeqIds : r <= arrived ~> terminal[r] # None
=============================================================================
