------------------------------- MODULE PDTransfer -------------------------------
(***************************************************************************)
(* run_pd_disaggregated.run: a prefill worker that computes a prompt and   *)
(* exports its KV cache, a decode worker that imports it and goes on, and  *)
(* the runner between them with its transfer queue.  One prefill is under  *)
(* way at a time, in a thread of its own, next to the steps of the decode  *)
(* worker.  A decode worker out of blocks preempts, and the request is     *)
(* then recomputed there.  Requests are numbered by arrival and share no   *)
(* prefix; tokens are counted.                                             *)
(***************************************************************************)
EXTENDS Integers, Sequences, FiniteSets, FiniteSetsExt

CONSTANTS
  NumRequests,
  BlockSize, TotalBlocks,  \* TotalBlocks: of the decode worker
  Prompt,                  \* request -> tokens of its prompt
  Limits,                  \* functions request -> tokens until max_tokens or eos
  MaxFaults                \* bound: workers that die and calls that fail

Request == 1..NumRequests
Worker == {"prefill", "decode"}
None == "None"
CeilDiv(a, b) == (a + b - 1) \div b

\* Every request fits into the decode worker on its own.
ASSUME PDAssumption ==
  /\ NumRequests \in Nat /\ BlockSize \in Nat \ {0} /\ MaxFaults \in Nat
  /\ \A q \in Request, limits \in Limits :
       /\ Prompt[q] \in Nat \ {0} /\ limits[q] \in Nat \ {0}
       /\ CeilDiv(Prompt[q] + limits[q] - 1, BlockSize) <= TotalBlocks

VARIABLES
  limit,     \* of Limits
  arrived,   \* requests 1..arrived have arrived by now
  admitted,  \* requests 1..admitted have left pending
  job,       \* active_prefill: [request, state], state of its future
  queue,     \* transfer_queue
  waiting, running,  \* the queues of the decode worker
  emitted,   \* request -> tokens the workers have emitted for it
  stranded,  \* the prefill worker holds KV of a call that failed
  process,   \* worker -> "up", "dead", "closed"
  record,    \* request -> [tokens, terminal] of its RequestRecord
  loop,      \* where the runner is
  cause,     \* why the loop was left early: "runner_error" or "timeout"
  faults     \* how many have happened

decodeQueues == <<waiting, running>>
vars == <<limit, arrived, admitted, job, queue, decodeQueues, emitted, stranded,
          process, record, loop, cause, faults>>

NoJob == [request |-> 0, state |-> "none"]
Elems(s) == {s[i] : i \in DOMAIN s}

Init ==
  /\ limit \in Limits
  /\ arrived = 0 /\ admitted = 0 /\ job = NoJob /\ queue = << >>
  /\ waiting = << >> /\ running = {}
  /\ emitted = [q \in Request |-> 0] /\ stranded = FALSE
  /\ process = [w \in Worker |-> "up"]
  /\ record = [q \in Request |-> [tokens |-> 0, terminal |-> None]]
  /\ loop = "top" /\ cause = None /\ faults = 0

InLoop == loop \in {"top", "harvest", "import", "step"}
Fault == faults < MaxFaults /\ faults' = faults + 1

(* The clock reaches the next arrival.                                     *)
Arrive ==
  /\ InLoop /\ arrived < NumRequests /\ arrived' = arrived + 1
  /\ UNCHANGED <<limit, admitted, job, queue, decodeQueues, emitted, stranded,
                 process, record, loop, cause, faults>>

(* A worker process is gone (killed, out of memory, a CUDA error).         *)
Die(w) ==
  /\ loop \notin {"returned", "raised"}
  /\ process[w] = "up" /\ process' = [process EXCEPT ![w] = "dead"]
  /\ Fault
  /\ UNCHANGED <<limit, arrived, admitted, job, queue, decodeQueues, emitted, stranded,
                 record, loop, cause>>

---------------------------------------------------------------------------
(* The prefill worker, in the executor's thread: LLMEngine.prefill_export  *)
(* steps until the first token and looks for the sequence in running,      *)
(* where a request that ends with its first token no longer is.            *)
Prefill ==
  /\ job.state = "running"
  /\ \/ /\ process["prefill"] = "up"
        /\ emitted' = [emitted EXCEPT ![job.request] = 1]
        /\ job' = [job EXCEPT !.state = IF limit[job.request] > 1 THEN "done" ELSE "failed"]
        /\ UNCHANGED <<stranded, faults>>
     \/ /\ process["prefill"] = "up" /\ Fault
        /\ job' = [job EXCEPT !.state = "failed"]
        /\ stranded' \in BOOLEAN
        /\ UNCHANGED emitted
     \/ /\ process["prefill"] = "dead"
        /\ job' = [job EXCEPT !.state = "failed"]
        /\ UNCHANGED <<emitted, stranded, faults>>
  /\ UNCHANGED <<limit, arrived, admitted, queue, decodeQueues, process, record, loop, cause>>

---------------------------------------------------------------------------
(* The loop of run, one turn after the other.                              *)

DecodeBusy == waiting # << >> \/ running # {}
OtherWork == admitted < NumRequests \/ job # NoJob \/ queue # << >>

Raise == loop' = "shutdown" /\ cause' = "runner_error"

(* The condition of the loop, max_run_seconds, and the prefill of the next *)
(* request when it has arrived and no other is under way.                  *)
Turn ==
  /\ loop = "top"
  /\ IF ~ OtherWork /\ process["decode"] = "dead"
     THEN Raise /\ UNCHANGED <<admitted, job>>
     ELSE IF ~ OtherWork /\ ~ DecodeBusy
     THEN loop' = "shutdown" /\ UNCHANGED <<cause, admitted, job>>
     ELSE \/ loop' = "shutdown" /\ cause' = "timeout" /\ UNCHANGED <<admitted, job>>
          \/ /\ loop' = "harvest" /\ UNCHANGED cause
             /\ IF job = NoJob /\ admitted < arrived
                THEN /\ admitted' = admitted + 1
                     /\ job' = [request |-> admitted + 1, state |-> "running"]
                ELSE UNCHANGED <<admitted, job>>
  /\ UNCHANGED <<limit, arrived, queue, decodeQueues, emitted, stranded, process,
                 record, faults>>

(* A prefill that is done: its first token and its KV payload.             *)
Harvest ==
  /\ loop = "harvest"
  /\ CASE job.state = "done" ->
            /\ record' = [record EXCEPT ![job.request].tokens = @ + 1]
            /\ queue' = Append(queue, job.request) /\ job' = NoJob
            /\ loop' = "import" /\ UNCHANGED cause
       [] job.state = "failed" -> Raise /\ UNCHANGED <<record, queue, job>>
       [] OTHER -> loop' = "import" /\ UNCHANGED <<record, queue, job, cause>>
  /\ UNCHANGED <<limit, arrived, admitted, decodeQueues, emitted, stranded, process, faults>>

BlocksOf(S, t) ==
  MapThenSumSet(LAMBDA q : CeilDiv(Prompt[q] + t[q] - 1, BlockSize), S)
Free == TotalBlocks - BlocksOf(running, emitted)

(* Mutants: a block that is filled only in part is not counted; one block  *)
(* more has to be free.                                                    *)
RequiredRoundedDown(q) == Prompt[q] \div BlockSize
RequiredAndOne(q) == CeilDiv(Prompt[q], BlockSize) + 1

(* What the runner asks of the decode worker's snapshot; can_allocate in   *)
(* import_decode asks for the blocks of the materialized tokens.           *)
Required(q) == CeilDiv(Prompt[q], BlockSize)

(* Mutant: the head of the transfer queue stays there.                     *)
KeptInQueue == queue

Popped == Tail(queue)

(* The head of the transfer queue is imported as soon as it fits.          *)
Import ==
  /\ loop = "import"
  /\ IF queue = << >>
     THEN loop' = "step" /\ UNCHANGED <<cause, queue, running, faults>>
     ELSE \/ /\ process["decode"] = "dead" \/ Free < Required(Head(queue))
             /\ IF process["decode"] = "dead" THEN Raise
                ELSE loop' = "step" /\ UNCHANGED cause
             /\ UNCHANGED <<queue, running, faults>>
          \/ /\ process["decode"] = "up" /\ Free >= Required(Head(queue))
             /\ IF Free >= CeilDiv(Prompt[Head(queue)], BlockSize)
                THEN /\ running' = running \union {Head(queue)}
                     /\ queue' = Popped
                     /\ loop' = "step" /\ UNCHANGED cause
                ELSE Raise /\ UNCHANGED <<queue, running>>
             /\ UNCHANGED faults
          \/ /\ process["decode"] = "up" /\ Fault /\ Raise
             /\ UNCHANGED <<queue, running>>
  /\ UNCHANGED <<limit, arrived, admitted, job, waiting, emitted, stranded, process, record>>

(* One step of the decode worker: a preempted request is recomputed, or    *)
(* running ones emit a token each and one is preempted.  Those that reach  *)
(* their limit leave, and the runner records what the step emitted.        *)
Emission(emitting, left) ==
  LET t == [q \in Request |-> emitted[q] + IF q \in emitting THEN 1 ELSE 0]
      held == (running \union emitting) \ Elems(left)
      ended == {q \in emitting : t[q] = limit[q]}
  IN  /\ BlocksOf(held, t) <= TotalBlocks
      /\ emitted' = t /\ running' = held \ ended /\ waiting' = left
      /\ record' = [q \in Request |->
           IF q \notin emitting THEN record[q]
           ELSE [tokens |-> record[q].tokens + 1,
                 terminal |-> IF q \in ended THEN "Finished" ELSE record[q].terminal]]

DecodeStep ==
  \/ waiting # << >> /\ Emission({Head(waiting)}, Tail(waiting))
  \/ running # {} /\ Emission(running, waiting)
  \/ \E q \in running : running # {q} /\ Emission(running \ {q}, <<q>> \o waiting)

Step ==
  /\ loop = "step"
  /\ \/ /\ process["decode"] = "up" /\ DecodeBusy /\ DecodeStep
        /\ loop' = "top" /\ UNCHANGED <<cause, faults>>
     \/ /\ process["decode"] = "up" /\ ~ DecodeBusy /\ loop' = "top"
        /\ UNCHANGED <<decodeQueues, emitted, record, cause, faults>>
     \/ /\ Raise
        /\ IF process["decode"] = "dead" THEN UNCHANGED faults ELSE Fault
        /\ UNCHANGED <<decodeQueues, emitted, record>>
  /\ UNCHANGED <<limit, arrived, admitted, job, queue, stranded, process>>

---------------------------------------------------------------------------
(* finally: the executor is drained, the workers are asked for their state *)
(* and closed, the open records are closed at ended.                       *)

Shutdown ==
  /\ loop = "shutdown" /\ job.state # "running"
  /\ loop' = "close prefill"
  /\ UNCHANGED <<limit, arrived, admitted, job, queue, decodeQueues, emitted, stranded,
                 process, record, cause, faults>>

Close(w, next) ==
  /\ IF process[w] = "dead" THEN loop' = "raised" /\ UNCHANGED process
     ELSE loop' = next /\ process' = [process EXCEPT ![w] = "closed"]
  /\ UNCHANGED <<limit, arrived, admitted, job, queue, decodeQueues, emitted, stranded,
                 record, cause, faults>>

CloseWorkers ==
  \/ loop = "close prefill" /\ Close("prefill", "close decode")
  \/ loop = "close decode" /\ Close("decode", "records")

(* mark_terminal raises for the first request that arrives after ended.    *)
CloseRecords ==
  /\ loop = "records"
  /\ record' = [q \in Request |->
       IF record[q].terminal = None /\ q <= arrived
       THEN [record[q] EXCEPT !.terminal =
               IF cause = "runner_error" THEN "Failed" ELSE "Unfinished"]
       ELSE record[q]]
  /\ loop' = IF arrived = NumRequests THEN "reconcile" ELSE "raised"
  /\ UNCHANGED <<limit, arrived, admitted, job, queue, decodeQueues, emitted, stranded,
                 process, cause, faults>>

(* Mutant: only the decode worker is looked at.                            *)
DecodeReleased == running = {}

(* final_kv_state_not_released.                                            *)
KvReleased == running = {} /\ ~ stranded

(* validate_gpu_provenance: both workers executed steps and hold nothing.  *)
Return ==
  /\ loop = "reconcile"
  /\ loop' = IF KvReleased /\ \E q \in Request : emitted[q] > 1 THEN "returned" ELSE "raised"
  /\ UNCHANGED <<limit, arrived, admitted, job, queue, decodeQueues, emitted, stranded,
                 process, record, cause, faults>>

Over == loop \in {"returned", "raised"} /\ UNCHANGED vars

Runner == Turn \/ Harvest \/ Import \/ Step \/ Shutdown \/ CloseWorkers \/ CloseRecords
            \/ Return

Next == Runner \/ Prefill \/ Arrive \/ (\E w \in Worker : Die(w)) \/ Over

(* The runner's thread, the executor's thread and the clock keep going;    *)
(* nothing has to fail and max_run_seconds is not owed either.             *)
Spec ==
  /\ Init /\ [][Next]_vars
  /\ WF_vars(Runner) /\ WF_vars(Prefill) /\ WF_vars(Arrive)

---------------------------------------------------------------------------
(* Properties.                                                             *)

TypeOK ==
  /\ arrived \in 0..NumRequests /\ admitted \in 0..arrived
  /\ job.request \in 0..admitted
  /\ job.state \in {"none", "running", "done", "failed"}
  /\ Elems(queue) \union Elems(waiting) \union running \subseteq 1..admitted
  /\ \A q \in Request : emitted[q] \in 0..limit[q] /\ record[q].tokens \in 0..limit[q]
  /\ process \in [Worker -> {"up", "dead", "closed"}]
  /\ cause \in {None, "runner_error", "timeout"} /\ faults \in 0..MaxFaults

(* A request is handed on and never copied or lost on its way: each one    *)
(* that was admitted is at exactly one place, the prefill worker, the      *)
(* transfer queue or one queue of the decode worker, until it has all its  *)
(* tokens, and its record shows what the workers have emitted but for a    *)
(* first token that is on its way.                                         *)
HandedOn ==
  /\ TypeOK
  /\ \A q \in 1..admitted :
       (IF job.request = q THEN 1 ELSE 0)
         + Cardinality({i \in DOMAIN queue : queue[i] = q})
         + Cardinality({i \in DOMAIN waiting : waiting[i] = q})
         + Cardinality({q} \intersect running)
         = IF emitted[q] < limit[q] \/ job.request = q THEN 1 ELSE 0
  /\ \A q \in Request :
       record[q].tokens
         = IF job.request = q THEN 0 ELSE emitted[q]

(* The free blocks the runner saw are still there when import_decode       *)
(* allocates, and they are enough: but for faults and for a request that   *)
(* ends with its first token no error ends the run.                        *)
ImportsFit ==
  cause = "runner_error" =>
    \/ faults > 0
    \/ job.state = "failed" /\ limit[job.request] = 1

(* The transfer at the head of the queue waits for blocks that the decode  *)
(* worker gives back only by finishing or preempting requests: neither     *)
(* waits for the other for ever.  A run that is not interrupted serves     *)
(* every request.                                                          *)
AllServed ==
  <>(cause # None \/ \A q \in Request : record[q].terminal = "Finished")

(* A result is only written when every request is closed as its worker     *)
(* left it and neither worker holds KV.                                    *)
ResultReconciled ==
  loop = "returned" =>
    /\ ~ stranded /\ running = {}
    /\ \A q \in Request : /\ record[q].terminal # None
                          /\ record[q].terminal = "Finished" <=> record[q].tokens = limit[q]
=============================================================================
