------------------------------- MODULE Serving -------------------------------
(***************************************************************************)
(* What an engine promises its callers, without queues, blocks or          *)
(* policies: a request that was added is live, emits its tokens one at a   *)
(* time, and is finished when it has emitted its limit or an end token.    *)
(* This is the view LLMEngine.step_with_events gives of a Sequence.        *)
(***************************************************************************)
EXTENDS Naturals

CONSTANT Requests

VARIABLES
  limit,    \* request -> max_tokens
  state,    \* request -> "absent", "live" or "finished"
  emitted   \* request -> number of completion tokens

vars == <<limit, state, emitted>>

Init ==
  /\ limit \in [Requests -> Nat \ {0}]
  /\ state = [r \in Requests |-> "absent"]
  /\ emitted = [r \in Requests |-> 0]

Arrive(r) ==
  /\ state[r] = "absent"
  /\ state' = [state EXCEPT ![r] = "live"]
  /\ UNCHANGED <<limit, emitted>>

(* One step of the engine: some live requests emit a token each; those     *)
(* that reach their limit, and some others, end with it.                   *)
Emit(active) ==
  /\ active # {} /\ \A r \in active : state[r] = "live"
  /\ emitted' = [r \in Requests |-> IF r \in active THEN emitted[r] + 1
                                    ELSE emitted[r]]
  /\ \E ended \in SUBSET active :
       /\ \A r \in active : emitted'[r] = limit[r] => r \in ended
       /\ state' = [r \in Requests |-> IF r \in ended THEN "finished"
                                       ELSE state[r]]
  /\ UNCHANGED limit

Next ==
  \/ \E r \in Requests : Arrive(r)
  \/ \E active \in SUBSET Requests : Emit(active)

Spec == Init /\ [][Next]_vars

AllFinish == \A r \in Requests : state[r] = "live" ~> state[r] = "finished"
=============================================================================
