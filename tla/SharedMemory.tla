------------------------------ MODULE SharedMemory ------------------------------
(***************************************************************************)
(* The calls of a tensor parallel engine: rank 0 writes each one into a    *)
(* shared memory segment and sets one event per other rank; the ranks      *)
(* read, clear their event and run the method.  write_shm does not wait    *)
(* for anybody.  The collective operations of run and run_mixed do not     *)
(* either: all_reduce and gather only enqueue work for the GPU.  The one   *)
(* place where rank 0 waits for the others is .tolist() of the tokens it   *)
(* has sampled, which need what every rank has computed; a run_mixed that  *)
(* samples nothing has no such place.  Barriers block every rank.  Calls   *)
(* are numbered; of their arguments only whether they sample is kept, and  *)
(* the collectives of one call count as one.                               *)
(***************************************************************************)
EXTENDS Integers, FiniteSets

CONSTANTS
  NumRanks,  \* tensor_parallel_size
  Calls,     \* the calls the engine makes, "exit" apart
  MaxCalls   \* bound: calls before exit

\* run samples every sequence it is given; run_mixed samples nothing in a
\* step of prefill chunks that are not the last of their prompts.  export_kv
\* and import_kv, which issue no collective, are left to engines of one rank,
\* where nothing is shared.
ASSUME SharedMemoryAssumption ==
  /\ NumRanks \in Nat \ {0, 1} /\ MaxCalls \in Nat
  /\ Calls \subseteq [method : {"run", "run_mixed"}, samples : BOOLEAN]
  /\ \A c \in Calls : c.method = "run" => c.samples

Rank == 0..(NumRanks - 1)
Others == Rank \ {0}

VARIABLES
  pc,       \* rank -> where it is
  segment,  \* the shared memory: "none", "open" or "unlinked"
  buffer,   \* what a reader may find: several things while it is written
  event,    \* rank -> whether its event is set
  target,   \* the rank whose event rank 0 sets next
  current,  \* rank -> the call that it executes or has executed last
  came      \* rank -> collectives it has issued, which match by their order

vars == <<pc, segment, buffer, event, target, current, came>>

Numbered(call, n) == [method |-> call.method, samples |-> call.samples, number |-> n]
Nothing == Numbered([method |-> "none", samples |-> FALSE], 0)
Torn == Numbered([method |-> "torn", samples |-> FALSE], 0)
Exit == [method |-> "exit", samples |-> FALSE]

Init ==
  /\ pc = [r \in Rank |-> IF r = 0 THEN "create" ELSE "start"]
  /\ segment = "none" /\ buffer = {Nothing}
  /\ event = [r \in Others |-> FALSE] /\ target = 1
  /\ current = [r \in Rank |-> Nothing]
  /\ came = [r \in Rank |-> 0]

Goto(r, place) == pc' = [pc EXCEPT ![r] = place]
Come(r) == came' = [came EXCEPT ![r] = @ + 1]

(* Every rank has come to the last collective of rank r.                   *)
AllCame(r) == \A q \in Rank : came[q] >= came[r]

---------------------------------------------------------------------------
(* ModelRunner.__init__: rank 0 creates the segment, then the barrier.     *)

Create ==
  /\ pc[0] = "create" /\ segment' = "open"
  /\ Come(0) /\ Goto(0, "opening")
  /\ UNCHANGED <<buffer, event, target, current>>

Start(r) ==
  /\ pc[r] = "start" /\ Come(r) /\ Goto(r, "opening")
  /\ UNCHANGED <<segment, buffer, event, target, current>>

Opened(r) ==
  /\ pc[r] = "opening" /\ AllCame(r)
  /\ Goto(r, IF r = 0 THEN "idle" ELSE "wait")
  /\ UNCHANGED <<segment, buffer, event, target, current, came>>

---------------------------------------------------------------------------
(* Rank 0: call, write_shm.                                                *)

(* read_shm does not look whether a write is going on: it may find the     *)
(* last call, the next one or a part of each.                              *)
BeginWrite ==
  /\ pc[0] = "idle"
  /\ \E call \in IF current[0].number < MaxCalls THEN Calls \union {Exit} ELSE {Exit} :
       current' = [current EXCEPT ![0] = Numbered(call, @.number + 1)]
  /\ buffer' = buffer \union {Torn, current'[0]}
  /\ Goto(0, "write")
  /\ UNCHANGED <<segment, event, target, came>>

EndWrite ==
  /\ pc[0] = "write" /\ buffer' = {current[0]} /\ Goto(0, "set")
  /\ UNCHANGED <<segment, event, target, current, came>>

SetEvent ==
  /\ pc[0] = "set"
  /\ event' = [event EXCEPT ![target] = TRUE]
  /\ target' = (target % (NumRanks - 1)) + 1
  /\ Goto(0, IF target = NumRanks - 1 THEN "run" ELSE "set")
  /\ UNCHANGED <<segment, buffer, current, came>>

---------------------------------------------------------------------------
(* The other ranks: loop, read_shm.                                        *)

(* A torn call does not unpickle; the exception ends the process.          *)
Read(r) ==
  /\ r # 0 /\ pc[r] = "wait" /\ event[r]
  /\ \E call \in buffer :
       IF call = Torn THEN Goto(r, "dead") /\ UNCHANGED current
       ELSE Goto(r, "clear") /\ current' = [current EXCEPT ![r] = call]
  /\ UNCHANGED <<segment, buffer, event, target, came>>

Clear(r) ==
  /\ pc[r] = "clear" /\ event' = [event EXCEPT ![r] = FALSE] /\ Goto(r, "run")
  /\ UNCHANGED <<segment, buffer, target, current, came>>

---------------------------------------------------------------------------
(* The method, on every rank.                                              *)

Run(r) ==
  /\ pc[r] = "run"
  /\ Come(r) /\ Goto(r, "leave")
  /\ UNCHANGED <<segment, buffer, event, target, current>>

(* Mutant: rank 0 does not wait for the tokens.                            *)
WaitsAtExit(r) == current[r].method = "exit"

(* The barrier of exit, and .tolist() on rank 0.                           *)
Waits(r) == current[r].method = "exit" \/ (r = 0 /\ current[r].samples)

Leave(r) ==
  /\ pc[r] = "leave"
  /\ Waits(r) => AllCame(r)
  /\ segment' = IF r = 0 /\ current[r].method = "exit" THEN "unlinked" ELSE segment
  /\ Goto(r, IF current[r].method = "exit" THEN "exited"
             ELSE IF r = 0 THEN "idle" ELSE "wait")
  /\ UNCHANGED <<buffer, event, target, current, came>>

Zero == Create \/ Opened(0) \/ BeginWrite \/ EndWrite \/ SetEvent \/ Run(0) \/ Leave(0)
Other(r) == Start(r) \/ Opened(r) \/ Read(r) \/ Clear(r) \/ Run(r) \/ Leave(r)

Next == Zero \/ \E r \in Others : Other(r)

(* Processes run; the engine does not have to call anything but exit.      *)
Spec ==
  /\ Init /\ [][Next]_vars
  /\ WF_vars(Zero) /\ \A r \in Others : WF_vars(Other(r))

---------------------------------------------------------------------------
(* Properties.                                                             *)

(* Every rank executes the calls of rank 0, each once and in order, and    *)
(* never reads one while it is being written; the segment is there         *)
(* whenever it is attached, read or written.  It needs Sampled.            *)
SameCalls ==
  \A r \in Others :
    /\ pc[r] # "dead"
    /\ current[r].number \in {current[0].number - 1, current[0].number}
    /\ pc[r] = "wait" => segment = "open" /\ came[r] = current[r].number + 1

(* No wakeup is lost, whatever rank 0 does between a rank's read and its   *)
(* clear: every call returns on every rank, and the engine exits.          *)
EngineExits == <>(\A r \in Rank : pc[r] = "exited")

(* Every call ends with a token on rank 0, as those of the static and the  *)
(* pressure policies do.                                                   *)
Sampled == \A c \in Calls : c.samples
=============================================================================
