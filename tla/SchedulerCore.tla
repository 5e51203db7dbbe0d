---------------------------- MODULE SchedulerCore ----------------------------
(***************************************************************************)
(* What the scheduling policies of nanovllm/engine/scheduler.py share: the *)
(* two queues, the prefill loop, the decode loop, preemption, and the      *)
(* postprocessing of a step, as functions of one record                    *)
(*   waiting, running  the two deques of sequence ids, head = left end     *)
(*   pool              the BlockManager (module BlockPool)                 *)
(*   len, cached       num_tokens and num_cached_tokens of every sequence; *)
(*                     plen, maxTokens, text: its prompt, limit and tokens *)
(*   table             its block_table                                     *)
(*   batch             what schedule() has selected so far in this step:   *)
(*                     records [seq, phase, n]                             *)
(*   policy            scheduler_policy; incremental: the setting          *)
(*                     incremental_kv_allocation                           *)
(*   preempts          preemption_count since the step began; a policy     *)
(*                     reads it before the step ends, so it is zeroed      *)
(*                     together with the batch                             *)
(* A policy module holds such a record as a variable and applies these     *)
(* operators in the order its branch of schedule() calls the methods.      *)
(***************************************************************************)
EXTENDS BlockPool

CONSTANTS
  NumSeqs,     \* bound: requests that ever arrive; ids are 1..NumSeqs
  Kinds,       \* what a request may be: records [prompt, max]
  MaxNumSeqs,  \* max_num_seqs
  MaxBatched,  \* max_num_batched_tokens
  Configs      \* how an engine may be set up: records [policy, incremental]

SeqIds == 1..NumSeqs

SmallerOf(a, b) == IF a < b THEN a ELSE b
LargerOf(a, b) == IF a > b THEN a ELSE b
Without(q, s) == Keep(q, SeqIds \ {s})

(* The text of sequence s: its prompt, then the tokens it will emit.  They *)
(* are no other sequence's tokens, so sequences share only prompt blocks   *)
(* and a sequence recognises its own blocks when it is recomputed.         *)
Text(kind, s) == kind.prompt \o [i \in 1..kind.max |-> 100 + s]
Toks(st, s) == SubSeq(st.text[s], 1, st.len[s])
Completion(st, s) == st.len[s] - st.plen[s]

---------------------------------------------------------------------------
(* preempt: back to WAITING without any block, at the left end of waiting  *)
(* or at the right.                                                        *)
Preempted(st, s, prepend) ==
  [st EXCEPT !.pool = Deallocated(st.pool, st.table[s]),
             !.table[s] = << >>,
             !.cached[s] = 0,
             !.running = Without(@, s),
             !.waiting = IF prepend THEN <<s>> \o @ ELSE Append(@, s),
             !.preempts = @ + 1]

(* resident_sequence_cost: the three figures the victim key compares.      *)
Releasable(st, s) ==
  Cardinality({b \in Elems(st.table[s]) : st.pool.ref[b] = 1})

SharedPrefixTokens(st, s) ==
  LET front == Len(st.table[s]) - 1
      shared == {k \in 0..front :
                   \A i \in 1..k : st.pool.ref[st.table[s][i]] > 1}
  IN  BlockSize * (CHOOSE k \in shared : \A j \in shared : j <= k)

EstimatedRecompute(st, s) ==
  LargerOf(st.len[s] - SharedPrefixTokens(st, s), 0)

Cost(st, s) == [seq |-> s, releasable |-> Releasable(st, s),
                recompute |-> EstimatedRecompute(st, s)]

(* The order of Python's tuples of numbers.                                *)
Precedes(key, other) ==
  \E i \in DOMAIN key : /\ key[i] < other[i]
                        /\ \A j \in 1..(i - 1) : key[j] = other[j]

(* select_recompute_victim: the key of one candidate against another.      *)
(* preemption_harm is estimated_recompute_tokens per releasable block; the *)
(* fractions are compared crosswise.                                       *)
VictimKey(cost, other) ==
  <<IF cost.releasable = 0 THEN 1 ELSE 0,
    cost.recompute * LargerOf(other.releasable, 1),
    cost.recompute, 0 - cost.releasable, cost.seq>>
Cheaper(cost, other) == Precedes(VictimKey(cost, other), VictimKey(other, cost))

SelectVictim(st, candidates) ==
  IF st.policy \in {"recompute_aware", "recompute_aware_bounded"}
  THEN CHOOSE s \in Elems(candidates) :
         \A t \in Elems(candidates) \ {s} : Cheaper(Cost(st, s), Cost(st, t))
  ELSE candidates[Len(candidates)]

(* _free_kv_for_waiting_head.  Here and below, a loop of the code is a     *)
(* function from the number of turns taken to the state; a turn whose      *)
(* condition does not hold changes nothing, so the state after as many     *)
(* turns as the loop can take is the one it leaves.                        *)
FreeTurn(st, head) ==
  IF /\ CanAllocate(st.pool, Toks(st, head), st.len[head]) = -1
     /\ st.running # << >>
  THEN Preempted(st, SelectVictim(st, st.running), FALSE)
  ELSE st

FreeKvFor(st, head) ==
  LET f[i \in 0..Len(st.running)] == IF i = 0 THEN st ELSE FreeTurn(f[i - 1], head)
  IN  f[Len(st.running)]

FreeKvForWaitingHead(st) ==
  IF st.table[Head(st.waiting)] # << >> THEN st
  ELSE FreeKvFor(st, Head(st.waiting))

---------------------------------------------------------------------------
(* _schedule_prefill(budget), one turn of its loop per call.               *)

Selected(st) == {st.batch[i].seq : i \in DOMAIN st.batch}
TokensOf(batch) ==
  LET f[i \in 0..Len(batch)] == IF i = 0 THEN 0 ELSE f[i - 1] + batch[i].n
  IN  f[Len(batch)]

(* The tokens of one chunk.                                                *)
Chunk(left, remaining) == SmallerOf(left, remaining)

(* Tokens of s that are cached before this step and tokens left to do.     *)
Done(st, s) == IF st.table[s] = << >>
               THEN CachedBlocks(st.pool, Toks(st, s)) * BlockSize
               ELSE st.cached[s]

Installed(st, s, new) == [st EXCEPT !.pool = new.pool, !.table[s] = new.table]

(* n tokens of s join the step; its last chunk makes the sequence run.     *)
Queued(st, s, n) ==
  [st EXCEPT
     !.batch = Append(@, [seq |-> s, phase |-> "prefill", n |-> n]),
     !.waiting = IF st.cached[s] + n = st.len[s] THEN Tail(@) ELSE @,
     !.running = IF st.cached[s] + n = st.len[s] THEN Append(@, s) ELSE @]

(* allocate() for a sequence without blocks, materialize() afterwards when *)
(* blocks are allocated incrementally.  No item is added when the blocks   *)
(* are not there: the "break" of the loop.                                 *)
FirstTarget(st, s, n) == IF st.incremental THEN Done(st, s) + n ELSE st.len[s]

FirstChunk(st, s, n, c) ==
  IF c = -1 THEN st
  ELSE Queued([Installed(st, s, Allocated(st.pool, Toks(st, s), c,
                                          FirstTarget(st, s, n)))
                 EXCEPT !.cached[s] = c * BlockSize], s, n)

NextChunk(st, s, n) ==
  IF ~ st.incremental THEN Queued(st, s, n)
  ELSE IF ~ CanMaterialize(st.pool, st.table[s], st.cached[s] + n) THEN st
  ELSE Queued(Installed(st, s,
                        Extended(st.pool, st.table[s],
                                 Missing(st.table[s], st.cached[s] + n))), s, n)

PrefillTurn(st, s, left, remaining, count) ==
  IF remaining < left /\ count > 0 THEN st
  ELSE IF st.table[s] # << >> THEN NextChunk(st, s, Chunk(left, remaining))
  ELSE FirstChunk(st, s, Chunk(left, remaining),
                  CanAllocate(st.pool, Toks(st, s),
                              FirstTarget(st, s, Chunk(left, remaining))))

(* The loop has the engine, the tokens left and the items it has added; it *)
(* breaks when a turn adds none, and the next turn would not either.       *)
Joined(l, after) ==
  [st |-> after, count |-> l.count + 1,
   remaining |-> l.remaining - after.batch[Len(after.batch)].n]
NextHead(st, s, remaining, count) ==
  PrefillTurn(st, s, st.len[s] - Done(st, s), remaining, count)
PrefillStep(l, after) == IF Len(after.batch) = Len(l.st.batch) THEN l ELSE Joined(l, after)
PrefillOn(l) ==
  IF l.st.waiting = << >> \/ l.remaining = 0 THEN l
  ELSE PrefillStep(l, NextHead(l.st, Head(l.st.waiting), l.remaining, l.count))

PrefillLoop(st, budget) ==
  LET f[i \in 0..MaxNumSeqs] ==
        IF i = 0 THEN [st |-> st, count |-> 0, remaining |-> budget]
        ELSE PrefillOn(f[i - 1])
  IN  f[MaxNumSeqs]

SchedulePrefill(st, budget) == PrefillLoop(st, budget).st

---------------------------------------------------------------------------
(* _schedule_decode(budget, rotate).  A sequence taken off the left end of *)
(* running that needs a block when none is free has the others preempted   *)
(* one by one, and is preempted itself when it is the last.                *)

RoomTurn(st, s) ==
  IF CanAppend(st.pool, st.len[s]) \/ s \in Elems(st.waiting) THEN st
  ELSE Preempted(st, IF st.running = << >> THEN s ELSE SelectVictim(st, st.running),
                 st.policy = "prefill_first")

MakeRoom(st, s) ==
  LET f[i \in 0..(Len(st.running) + 1)] ==
        IF i = 0 THEN st ELSE RoomTurn(f[i - 1], s)
  IN  f[Len(st.running) + 1]

(* Mutant: may_append is not called.                                       *)
GrownNot(st, s) == st

Grown(st, s) ==
  Installed(st, s, Extended(st.pool, st.table[s], AppendNeeds(st.len[s])))

Decided(l, room, s) ==
  IF s \in Elems(room.waiting) THEN [st |-> room, chosen |-> l.chosen]
  ELSE [st |-> Grown(room, s), chosen |-> Append(l.chosen, s)]
DecodeTurn(l, size) ==
  IF l.st.running = << >> \/ Len(l.chosen) >= size THEN l
  ELSE Decided(l, MakeRoom([l.st EXCEPT !.running = Tail(@)], Head(l.st.running)),
               Head(l.st.running))

DecodeLoop(st, size) ==
  LET f[i \in 0..Len(st.running)] ==
        IF i = 0 THEN [st |-> st, chosen |-> << >>] ELSE DecodeTurn(f[i - 1], size)
  IN  f[Len(st.running)]

Requeued(st, chosen, rotate) ==
  [st EXCEPT !.batch = [i \in 1..Len(chosen) |->
                          [seq |-> chosen[i], phase |-> "decode", n |-> 1]] \o @,
             !.running = IF rotate THEN @ \o chosen ELSE chosen \o @]
Decoded(r, rotate) == Requeued(r.st, r.chosen, rotate)

ScheduleDecode(st, budget, rotate) ==
  Decoded(DecodeLoop(st, SmallerOf(SmallerOf(MaxNumSeqs, MaxBatched), budget)),
          rotate)

---------------------------------------------------------------------------
(* postprocess / postprocess_mixed: hash the blocks that were filled, add  *)
(* the emitted token, release the sequences that are finished.  eos is the *)
(* set of sequences whose sampled token is the end-of-sequence token.      *)

(* Mutant: the progress of a chunk is not recorded.                        *)
RecordedNot(st, item) ==
  [st EXCEPT !.pool = Hashed(@, Toks(st, item.seq), st.table[item.seq],
                             st.cached[item.seq], item.n)]

Recorded(st, item) ==
  [st EXCEPT !.pool = Hashed(@, Toks(st, item.seq), st.table[item.seq],
                             st.cached[item.seq], item.n),
             !.cached[item.seq] = @ + item.n]

(* Mutant: the blocks of a finished sequence stay in use.                  *)
ReleasedLeaks(st, s) ==
  [st EXCEPT !.table[s] = << >>,
             !.cached[s] = 0,
             !.running = Without(@, s),
             !.finished = @ \union {s}]

Released(st, s) ==
  [st EXCEPT !.pool = Deallocated(@, st.table[s]),
             !.table[s] = << >>,
             !.cached[s] = 0,
             !.running = Without(@, s),
             !.finished = @ \union {s}]

Emitted(st, s) == [st EXCEPT !.len[s] = @ + 1]

(* Mutant: the token limit is checked off by one.                          *)
EndedPastLimit(st, s, eos) ==
  IF s \in eos \/ Completion(st, s) > st.maxTokens[s] THEN Released(st, s) ELSE st

(* A sequence ends with an end token or with its last allowed one.         *)
Ended(st, s, eos) ==
  IF s \in eos \/ Completion(st, s) = st.maxTokens[s] THEN Released(st, s) ELSE st

(* A prefill chunk that is not the last one emits nothing.                 *)
ItemAfter(st, item, eos) ==
  IF item.phase = "prefill" /\ st.cached[item.seq] < st.len[item.seq] THEN st
  ELSE Ended(Emitted(st, item.seq), item.seq, eos)

ItemDone(st, item, eos) == ItemAfter(Recorded(st, item), item, eos)

AllDone(st, eos) ==
  LET f[i \in 0..Len(st.batch)] ==
        IF i = 0 THEN st ELSE ItemDone(f[i - 1], st.batch[i], eos)
  IN  f[Len(st.batch)]
Postprocessed(st, eos) == [AllDone(st, eos) EXCEPT !.batch = << >>, !.preempts = 0]

---------------------------------------------------------------------------
(* The engine before any request, for an assignment of kinds to ids, and   *)
(* Scheduler.add.                                                          *)

Fresh(config, kind) ==
  [policy |-> config.policy, incremental |-> config.incremental,
   waiting |-> << >>, running |-> << >>, finished |-> {}, batch |-> << >>,
   preempts |-> 0,
   pool |-> EmptyPool,
   text |-> [s \in SeqIds |-> Text(kind[s], s)],
   plen |-> [s \in SeqIds |-> Len(kind[s].prompt)],
   maxTokens |-> [s \in SeqIds |-> kind[s].max],
   len |-> [s \in SeqIds |-> Len(kind[s].prompt)],
   cached |-> [s \in SeqIds |-> 0],
   table |-> [s \in SeqIds |-> << >>]]

(* Mutant: a request is put in front of the queue.                         *)
AddedInFront(st, s) == [st EXCEPT !.waiting = <<s>> \o @]

Added(st, s) == [st EXCEPT !.waiting = Append(@, s)]

(* What run_open_loop.py requires of a workload before it starts: every    *)
(* request fits into the KV cache on its own.                              *)
Feasible(kind) == BlocksFor(Len(kind.prompt) + kind.max - 1) <= NumBlocks

ASSUME CoreAssumption ==
  /\ NumSeqs \in Nat \ {0} /\ MaxNumSeqs \in Nat \ {0}
  /\ MaxBatched \in Nat \ {0}
  /\ \A config \in Configs : config.incremental \in BOOLEAN
  /\ \A kind \in Kinds : /\ kind.prompt \in Seq(Nat) /\ Len(kind.prompt) > 0
                         /\ kind.max \in Nat \ {0} /\ Feasible(kind)

---------------------------------------------------------------------------
(* Properties every policy must keep, stated on the engine record e.       *)

EngineTyped(e) ==
  /\ e.waiting \in Seq(SeqIds) /\ e.running \in Seq(SeqIds)
  /\ e.finished \subseteq SeqIds
  /\ \A s \in SeqIds : /\ e.len[s] \in e.plen[s]..Len(e.text[s])
                        /\ e.cached[s] \in 0..e.len[s]
                        /\ e.table[s] \in Seq(Block)
  /\ \A k \in DOMAIN e.batch :
       e.batch[k] \in [seq : SeqIds, phase : {"prefill", "decode"}, n : Nat]

(* Where a sequence is: each of the n arrived requests that is not         *)
(* finished is exactly once in exactly one queue; a finished one holds     *)
(* nothing; preemption and postprocessing never lose or duplicate one.     *)
QueuesExactIn(e, n) ==
  LET queued == e.waiting \o e.running
  IN  /\ Elems(queued) = (1..n) \ e.finished
      /\ Len(queued) = Cardinality(Elems(queued))
      /\ \A s \in SeqIds : s \notin Elems(queued) => e.table[s] = << >>

(* The block accounts stay exact through whole steps: counts are the       *)
(* tables that hold a block, free and used partition the pool, the cache   *)
(* index names blocks that carry the indexed hash, and an engine without   *)
(* resident sequences has every block free.                                *)
BlocksExactIn(e) ==
  /\ Accounts(e.pool, e.table, SeqIds)
  /\ \A h \in DOMAIN e.pool.map : e.pool.hash[e.pool.map[h]] = h

(* When the batch reaches the model every item has the blocks its tokens   *)
(* are written to, they belong to that sequence alone and carry no cached  *)
(* prefix, and no sequence is in the batch twice: nothing selected earlier *)
(* in the step was preempted later in it.                                  *)
LastPosition(e, item) ==
  IF item.phase = "decode" THEN e.len[item.seq]
  ELSE e.cached[item.seq] + item.n

BatchBackedIn(e) ==
  /\ Cardinality(Selected(e)) = Len(e.batch)
  /\ \A k \in DOMAIN e.batch :
       LET item == e.batch[k]
           held == e.table[item.seq]
           last == LastPosition(e, item)
       IN  /\ item.n > 0
           /\ last <= e.len[item.seq]
           /\ BlocksFor(last) <= Len(held)
           /\ \A i \in BlocksFor(last - item.n + 1)..BlocksFor(last) :
                e.pool.ref[held[i]] = 1 /\ e.pool.hash[held[i]] = Root

(* max_num_batched_tokens bounds the tokens of a step, max_num_seqs the    *)
(* sequences of each of its phases.                                        *)
WithinBudgetIn(e) ==
  /\ TokensOf(e.batch) <= MaxBatched
  /\ \A phase \in {"prefill", "decode"} :
       Cardinality({k \in DOMAIN e.batch : e.batch[k].phase = phase})
         <= MaxNumSeqs

EngineSoundIn(e, n) ==
  /\ QueuesExactIn(e, n) /\ BatchBackedIn(e) /\ WithinBudgetIn(e)
  /\ e.batch = << >> => BlocksExactIn(e)

=============================================================================
