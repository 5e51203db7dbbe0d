-------------------------------- MODULE Replicas --------------------------------
(***************************************************************************)
(* run_multi_replica.run: a runner, its MultiReplicaCoordinator and router *)
(* in front of worker processes that own an engine each.  A worker acts    *)
(* only on a call that comes through its pipe (ProcessReplicaEndpoint,     *)
(* replica_worker), so a call is one step of both sides, except            *)
(* audit_step, which the coordinator sends to all busy workers at once.    *)
(* An engine is what Serving promises of it, with the figures of           *)
(* replica_state_snapshot; a worker may die and a call may fail.           *)
(* Requests are numbered by arrival; a policy that keeps no waiting ages   *)
(* (oldest_waiting_age = 0) runs in the engines.                           *)
(***************************************************************************)
EXTENDS Integers, Sequences, FiniteSets

CONSTANTS
  NumReplicas, NumRequests,
  BlockSize, TotalBlocks,  \* of one replica
  Prompt, Limit,           \* request -> prompt tokens, max_tokens
  PrefixGroup,             \* request -> whose prompts share their first block
  Routers,                 \* of "round_robin", "resource_aware", "prefix_aware"
  MaxFaults                \* bound: workers that die and calls that fail

ASSUME ReplicasAssumption ==
  /\ NumReplicas \in Nat \ {0} /\ NumRequests \in Nat /\ MaxFaults \in Nat
  /\ BlockSize \in Nat \ {0} /\ TotalBlocks \in Nat
  /\ \A q \in 1..NumRequests : Prompt[q] \in Nat \ {0} /\ Limit[q] \in Nat \ {0}
  /\ Routers \subseteq {"round_robin", "resource_aware", "prefix_aware"}

Replica == 1..NumReplicas
Request == 1..NumRequests
None == "None"

VARIABLES
  router, cursor,  \* the router of this run, RoundRobinRouter._next
  engine,    \* replica -> [waiting, running, cached, added]: its queue, its
             \* running set, the prefix groups in its cache, and the requests
             \* in the order of add, whose index is the local seq_id
  emitted,   \* request -> tokens the engines have emitted for it
  process,   \* replica -> "absent", "up", "dead", "closed"
  answer,    \* replica -> [state, events]: audit_step in this round
  owner,     \* coordinator.requests: <<replica, seq_id>> -> request
  routed,    \* requests 1..routed have left pending
  due,       \* requests 1..due have arrived at this turn
  record,    \* request -> [tokens, terminal] of its RequestRecord
  loop,      \* where the runner is
  cause,     \* why the loop was left early: "runner_error" or "timeout"
  final,     \* replicas whose snapshot is in final_snapshots
  faults     \* how many have happened

choice == <<router, cursor>>
fleet == <<engine, emitted, process>>
arrivals == <<routed, due>>
ending == <<cause, final>>
vars == <<choice, fleet, answer, owner, arrivals, record, loop, ending, faults>>

Silent == [state |-> "silent", events |-> {}]
Refused == [state |-> "refused", events |-> {}]

Init ==
  /\ router \in Routers /\ cursor = 1
  /\ engine = [r \in Replica |-> [waiting |-> << >>, running |-> {},
                                  cached |-> {}, added |-> << >>]]
  /\ emitted = [q \in Request |-> 0]
  /\ process = [r \in Replica |-> "absent"]
  /\ answer = [r \in Replica |-> Silent]
  /\ owner = << >> /\ routed = 0 /\ due = 0
  /\ record = [q \in Request |-> [tokens |-> 0, terminal |-> None]]
  /\ loop = "launch" /\ cause = None /\ final = {} /\ faults = 0

---------------------------------------------------------------------------
(* verify_source_snapshot, launch_replicas, validate_gpu_preflight: the    *)
(* first snapshot of every worker brings up an initialisation error, and   *)
(* then all are terminated; a preflight that is refused leaves them up.    *)
Launch ==
  /\ loop = "launch"
  /\ \/ /\ process' = [r \in Replica |-> "up"]
        /\ loop' = "top" /\ UNCHANGED faults
     \/ /\ process' \in {[r \in Replica |-> p] : p \in {"absent", "up", "closed"}}
        /\ loop' = "raised"
        /\ faults < MaxFaults /\ faults' = faults + 1
  /\ UNCHANGED <<choice, engine, emitted, answer, owner, arrivals, record, ending>>

---------------------------------------------------------------------------
(* The engines.                                                            *)

CeilDiv(a, b) == (a + b - 1) \div b
Elems(s) == {s[i] : i \in DOMAIN s}

(* The blocks of requests that hold KV after t[q] tokens were emitted, by  *)
(* their place; those of one prefix group hold the first block once.       *)
BlocksOf(S, t) ==
  {<<PrefixGroup[q], 1>> : q \in S}
    \union UNION {{q} \X (2..CeilDiv(Prompt[q] + t[q] - 1, BlockSize)) : q \in S}

Used(r) == Cardinality(BlocksOf(engine[r].running, emitted))

Busy(r) == engine[r].waiting # << >> \/ engine[r].running # {}

(* step_with_events: a request whose limit is reached leaves; admitted     *)
(* prompts come from the queue and preempted requests go back to its head. *)
Emission(r, emitting, waiting) ==
  LET t == [q \in Request |-> emitted[q] + IF q \in emitting THEN 1 ELSE 0]
      held == (engine[r].running \union emitting) \ Elems(waiting)
      ended == {q \in emitting : t[q] = Limit[q]}
      seqs(S) == {i \in DOMAIN engine[r].added : engine[r].added[i] \in S}
  IN  /\ Cardinality(BlocksOf(held, t)) <= TotalBlocks
      /\ emitted' = t
      /\ \E evicted \in SUBSET (engine[r].cached \ {PrefixGroup[q] : q \in held}) :
           engine' = [engine EXCEPT
             ![r].waiting = waiting, ![r].running = held \ ended,
             ![r].cached = (@ \union {PrefixGroup[q] : q \in emitting}) \ evicted]
      /\ answer' = [answer EXCEPT ![r] =
           [state |-> "answered",
            events |-> {[seq |-> i, finished |-> engine[r].added[i] \in ended] :
                          i \in seqs(emitting)}]]

Prefills(r) ==
  /\ engine[r].waiting # << >>
  /\ Emission(r, {Head(engine[r].waiting)}, Tail(engine[r].waiting))

Decodes(r) ==
  \/ engine[r].running # {} /\ Emission(r, engine[r].running, engine[r].waiting)
  \/ \E q \in engine[r].running :
       /\ engine[r].running # {q}
       /\ Emission(r, engine[r].running \ {q}, <<q>> \o engine[r].waiting)

(* audit_step, in a thread of its own.                                     *)
AuditStep(r) ==
  /\ loop = "stepping" /\ answer[r].state = "asked"
  /\ \/ /\ process[r] = "up" /\ (Prefills(r) \/ Decodes(r))
        /\ UNCHANGED faults
     \/ /\ answer' = [answer EXCEPT ![r] = Refused]
        /\ IF process[r] = "dead" THEN UNCHANGED faults
           ELSE faults < MaxFaults /\ faults' = faults + 1
        /\ UNCHANGED <<engine, emitted>>
  /\ UNCHANGED <<choice, process, owner, arrivals, record, loop, ending>>

(* A worker process is gone (killed, out of memory, a CUDA error).         *)
Die(r) ==
  /\ loop \notin {"launch", "returned", "raised"}
  /\ process[r] = "up" /\ process' = [process EXCEPT ![r] = "dead"]
  /\ faults < MaxFaults /\ faults' = faults + 1
  /\ UNCHANGED <<choice, engine, emitted, answer, owner, arrivals, record, loop, ending>>

---------------------------------------------------------------------------
(* The routers.  A snapshot is what replica_state_snapshot and with_prefix *)
(* show for a request.                                                     *)

Snapshot(r, q) ==
  [id |-> r, used |-> Used(r), free |-> TotalBlocks - Used(r),
   waiting |-> Len(engine[r].waiting), running |-> Cardinality(engine[r].running),
   matched |-> IF PrefixGroup[q] \in engine[r].cached THEN 1 ELSE 0,
   active |-> IF \E p \in engine[r].running : PrefixGroup[p] = PrefixGroup[q]
              THEN 1 ELSE 0]

(* Mutant: the load key without the waiting queue, which holds no KV.      *)
LoadKeyWithoutQueue(s) ==
  <<IF router = "prefix_aware" THEN - s.matched ELSE 0, s.used, s.running, s.id>>

LoadKey(s) ==
  <<IF router = "prefix_aware" THEN - s.matched ELSE 0, s.waiting, s.used,
    s.running, s.id>>

Precedes(key, other) ==
  \E i \in DOMAIN key : /\ key[i] < other[i]
                        /\ \A j \in 1..(i - 1) : key[j] = other[j]

Estimated(q) == CeilDiv(Prompt[q] + Limit[q] - 1, BlockSize)

ResourceAware(q) ==
  LET snapshots == {Snapshot(r, q) : r \in Replica}
      feasible == {s \in snapshots : s.free + s.active >= Estimated(q)}
      candidates == IF feasible = {} THEN snapshots ELSE feasible
  IN  (CHOOSE s \in candidates :
         \A t \in candidates \ {s} : Precedes(LoadKey(s), LoadKey(t))).id

NextCursor == (cursor % NumReplicas) + 1

Target(q) == IF router = "round_robin" THEN cursor ELSE ResourceAware(q)

---------------------------------------------------------------------------
(* The loop of run.                                                        *)

AllUp == \A r \in Replica : process[r] = "up"

(* Mutant: a queue that waits is not work.                                 *)
FinishedWhenNothingRuns == \A r \in Replica : engine[r].running = {}

Finished == \A r \in Replica : ~ Busy(r)

(* coordinator.is_finished asks up to the first busy replica; a dead one   *)
(* before it raises.                                                       *)
AskRaises ==
  \E r \in Replica : process[r] = "dead" /\ \A p \in 1..(r - 1) : ~ Busy(p)

(* The loop is over, or what has arrived by now is due: after a sleep, the *)
(* next request at least.                                                  *)
Turn ==
  /\ loop \in {"top", "woken"} /\ (routed < NumRequests \/ ~ AskRaises)
  /\ IF routed = NumRequests /\ Finished
     THEN loop' = "finally" /\ UNCHANGED due
     ELSE /\ loop' = "route"
          /\ due' \in (IF loop = "woken" THEN routed + 1 ELSE routed)..NumRequests
  /\ UNCHANGED <<choice, fleet, answer, owner, routed, record, ending, faults>>

(* max_run_seconds is over.                                                *)
TimeOut ==
  /\ loop \in {"top", "woken"}
  /\ routed < NumRequests \/ ~ (AskRaises \/ Finished)
  /\ loop' = "finally" /\ cause' = "timeout" /\ UNCHANGED final
  /\ UNCHANGED <<choice, fleet, answer, owner, arrivals, record, faults>>

(* route_request: snapshots and previews of all replicas, the decision,    *)
(* and the add, whose local sequence id the coordinator remembers.         *)
Route ==
  /\ loop = "route" /\ routed < due /\ AllUp
  /\ LET q == routed + 1
         r == Target(q)
         key == <<r, Len(engine[r].added) + 1>>
     IN  /\ engine' = [engine EXCEPT ![r].waiting = Append(@, q),
                                     ![r].added = Append(@, q)]
         /\ owner' = [k \in DOMAIN owner \union {key} |-> IF k = key THEN q ELSE owner[k]]
  /\ cursor' = IF router = "round_robin" THEN NextCursor ELSE cursor
  /\ routed' = routed + 1
  /\ UNCHANGED <<router, emitted, process, answer, due, record, loop, ending, faults>>

(* Nothing to do: sleep until the next arrival.                            *)
Idle ==
  /\ loop = "route" /\ routed = due /\ Finished /\ ~ AskRaises
  /\ loop' = IF routed < NumRequests THEN "woken" ELSE "top"
  /\ UNCHANGED <<choice, fleet, answer, owner, arrivals, record, ending, faults>>

(* coordinator.step asks every replica whether it is busy, then sends      *)
(* audit_step to the busy ones.                                            *)
StartStep ==
  /\ loop = "route" /\ routed = due /\ ~ Finished /\ AllUp
  /\ answer' = [r \in Replica |-> IF Busy(r) THEN [Silent EXCEPT !.state = "asked"]
                                  ELSE Silent]
  /\ loop' = "stepping"
  /\ UNCHANGED <<choice, fleet, owner, arrivals, record, ending, faults>>

Answered == \A r \in Replica : answer[r].state # "asked"
RoundOK == AllUp /\ \A r \in Replica : answer[r].state # "refused"

(* Mutant: a sequence id is looked up without its replica.                 *)
EventRequestAnyReplica(r, seq) ==
  owner[<<CHOOSE p \in Replica : <<p, seq>> \in DOMAIN owner, seq>>]

EventRequest(r, seq) == owner[<<r, seq>>]

(* The answers in order, the snapshots after the round, and the events in  *)
(* the records of the runner.                                              *)
Collect ==
  /\ loop = "stepping" /\ Answered /\ RoundOK
  /\ LET events == UNION {{[request |-> EventRequest(r, e.seq), finished |-> e.finished] :
                             e \in answer[r].events} : r \in Replica}
         Of(q) == {e \in events : e.request = q}
     IN  record' = [q \in Request |->
           [tokens |-> record[q].tokens + Cardinality(Of(q)),
            terminal |-> IF \E e \in Of(q) : e.finished THEN "Finished"
                         ELSE record[q].terminal]]
  /\ answer' = [r \in Replica |-> Silent]
  /\ loop' = "top"
  /\ UNCHANGED <<choice, fleet, owner, arrivals, ending, faults>>

(* What raises in the loop: a call to a dead worker, an add that is        *)
(* refused, a round in which one replica failed (it takes the answers of   *)
(* the others with it).                                                    *)
CallFails ==
  /\ \/ loop \in {"top", "woken"} /\ routed = NumRequests /\ AskRaises /\ UNCHANGED faults
     \/ /\ loop = "route" /\ UNCHANGED faults
        /\ IF routed = due /\ Finished THEN AskRaises ELSE ~ AllUp
     \/ loop = "route" /\ routed < due /\ faults < MaxFaults /\ faults' = faults + 1
     \/ loop = "stepping" /\ Answered /\ ~ RoundOK /\ UNCHANGED faults
  /\ loop' = "finally" /\ cause' = "runner_error" /\ UNCHANGED final
  /\ UNCHANGED <<choice, fleet, answer, owner, arrivals, record>>

(* finally: the open records are closed at ended.  mark_terminal raises    *)
(* for the first request that arrives after it, and nothing else is done.  *)
CloseRecords ==
  /\ loop = "finally"
  /\ \E arrived \in due..NumRequests :
       /\ record' = [q \in Request |->
            IF record[q].terminal = None /\ q <= arrived
            THEN [record[q] EXCEPT !.terminal =
                    IF cause = "runner_error" THEN "Failed" ELSE "Unfinished"]
            ELSE record[q]]
       /\ loop' = IF arrived = NumRequests THEN "snapshots" ELSE "raised"
  /\ UNCHANGED <<choice, fleet, answer, owner, arrivals, ending, faults>>

(* endpoint.snapshot() of all replicas.  One that raises, because its      *)
(* worker is dead or the call fails, is passed over.                       *)
FinalSnapshots ==
  /\ loop = "snapshots" /\ loop' = "closing"
  /\ LET up == {r \in Replica : process[r] = "up"}
     IN  \/ final' = up /\ UNCHANGED faults
         \/ /\ final' \in SUBSET up \ {up}
            /\ faults < MaxFaults /\ faults' = faults + 1
  /\ UNCHANGED <<choice, fleet, answer, owner, arrivals, record, cause>>

(* endpoint.close() for one replica after the other; a dead one raises.    *)
CloseEndpoint ==
  /\ loop = "closing"
  /\ \E r \in Replica :
       /\ process[r] \in {"up", "dead"}
       /\ \A p \in 1..(r - 1) : process[p] = "closed"
       /\ loop' = IF process[r] = "dead" THEN "raised" ELSE loop
       /\ process' = [process EXCEPT ![r] = "closed"]
  /\ UNCHANGED <<choice, engine, emitted, answer, owner, arrivals, record, ending, faults>>

(* Mutant: the final snapshots are not looked at.                          *)
KvReleasedUnchecked == TRUE

(* final_kv_state_not_released, of the snapshots there are.                *)
KvReleased == \A r \in final : Used(r) = 0

(* validate_gpu_provenance: every replica was given requests and executed  *)
(* steps, no final snapshot shows KV; its steps may not have overlapped.   *)
Return ==
  /\ loop = "closing" /\ \A r \in Replica : process[r] = "closed"
  /\ \/ loop' = "raised"
     \/ /\ loop' = "returned" /\ KvReleased
        /\ \A r \in Replica : \E q \in Elems(engine[r].added) : emitted[q] > 0
  /\ UNCHANGED <<choice, fleet, answer, owner, arrivals, record, ending, faults>>

Over == loop \in {"returned", "raised"} /\ UNCHANGED vars

Runner ==
  \/ Launch \/ Turn \/ TimeOut \/ Route \/ Idle \/ StartStep
  \/ Collect \/ CallFails \/ CloseRecords \/ FinalSnapshots \/ CloseEndpoint \/ Return

Next ==
  \/ Runner
  \/ \E r \in Replica : AuditStep(r)
  \/ \E r \in Replica : Die(r)
  \/ Over

(* The runner and the threads of a round keep going; nothing has to fail.  *)
Fairness == WF_vars(Runner) /\ \A r \in Replica : WF_vars(AuditStep(r))

Spec == Init /\ [][Next]_vars /\ Fairness

---------------------------------------------------------------------------
(* Properties.                                                             *)

(* The state has its types.                                                *)
TypeOK ==
  /\ router \in Routers /\ cursor \in Replica
  /\ \A r \in Replica :
       /\ Elems(engine[r].waiting) \union engine[r].running \subseteq Request
       /\ engine[r].cached \subseteq {PrefixGroup[q] : q \in Request}
       /\ answer[r].state \in {"silent", "asked", "answered", "refused"}
  /\ process \in [Replica -> {"absent", "up", "dead", "closed"}]
  /\ \A q \in Request : emitted[q] \in 0..Limit[q] /\ record[q].tokens \in 0..Limit[q]
  /\ {record[q].terminal : q \in Request}
       \subseteq {None, "Finished", "Failed", "Unfinished"}
  /\ routed \in 0..NumRequests /\ due \in routed..NumRequests
  /\ loop \in {"launch", "top", "woken", "route", "stepping", "finally",
               "snapshots", "closing", "returned", "raised"}
  /\ cause \in {None, "runner_error", "timeout"} /\ final \subseteq Replica
  /\ faults \in 0..MaxFaults

(* MultiReplicaCoordinator.step names the request of an event by replica   *)
(* and local sequence id, which every replica counts from one: what the    *)
(* runner has recorded of a request is what its engine has emitted, but    *)
(* for the tokens of a round that is not collected or was lost.            *)
RecordsMatch ==
  TypeOK /\ \A q \in Request :
    /\ record[q].terminal = "Finished" <=> record[q].tokens = Limit[q]
    /\ record[q].tokens = emitted[q]
       \/ /\ record[q].tokens = emitted[q] - 1
          /\ loop = "stepping" \/ cause = "runner_error"

(* ResourceAwareRouter reads snapshots in which a waiting request holds no *)
(* KV: still no request is queued behind others while a replica is idle.   *)
IdlePreferred ==
  [][\A r \in Replica :
       (router = "resource_aware" /\ engine'[r].added # engine[r].added /\ Busy(r))
         => \A s \in Replica : Busy(s)]_vars

(* run writes a result only over reconciled state: every worker closed,    *)
(* every record closed as its engine left it, and KV still held nowhere    *)
(* but on a replica whose final snapshot could not be taken.               *)
ResultReconciled ==
  loop = "returned" =>
    \A r \in Replica :
      /\ process[r] = "closed"
      /\ engine[r].running # {} => r \notin final /\ faults > 0
      /\ \A q \in Elems(engine[r].added) :
           record[q].terminal # None
             /\ (record[q].terminal = "Finished" \/ cause = "runner_error"
                 \/ q \in Elems(engine[r].waiting) \union engine[r].running)

(* A run that is neither interrupted by an error nor by max_run_seconds    *)
(* finishes every request, on whichever replica, and ends.                 *)
AllServed ==
  <>(loop \in {"returned", "raised"}
     /\ (cause = None /\ faults = 0 => \A q \in Request : record[q].terminal = "Finished"))

(* ARCHITECTURE.md, key invariants: every run completes its terminal       *)
(* reconciliation, so all requests end in a terminal state, those of a     *)
(* failed or timed out run too.                                            *)
EveryRecordCloses ==
  (loop = "raised" /\ routed > 0) => \A q \in Request : record[q].terminal # None
=============================================================================
