----------------------------- MODULE MCSharedMemory -----------------------------
(***************************************************************************)
(* Three ranks and four calls, either run or run_mixed, before exit.       *)
(***************************************************************************)
EXTENDS SharedMemory

SampledCalls == [method : {"run", "run_mixed"}, samples : {TRUE}]

\* A mixed step of prefill chunks only: with this call in Calls SameCalls and
\* EngineExits fail (README, part 6).
WithChunks == SampledCalls \union {[method |-> "run_mixed", samples |-> FALSE]}
=============================================================================
