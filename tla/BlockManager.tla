---------------------------- MODULE BlockManager ----------------------------
(***************************************************************************)
(* The paged KV cache of one engine: BlockManager driven by the scheduler, *)
(* the model runner and the postprocessing of a step, over sequences that  *)
(* share prefixes, grow, are preempted, finish, and are imported from a    *)
(* prefill worker.  Which sequence is scheduled, with how many tokens, and *)
(* which one is preempted is left open here: it is what the scheduling     *)
(* policies decide, and the cache must be right for all of them.           *)
(***************************************************************************)
EXTENDS BlockPool

CONSTANTS Seqs,         \* sequences alive at the same time
          Token,        \* vocabulary
          Prompts,      \* prompts a request may carry
          MaxLen,       \* bound: tokens of a sequence when it must finish
          Incremental,  \* incremental_kv_allocation
          AllowImport   \* whether this engine is a P/D decode worker

ASSUME ManagerAssumption ==
  /\ IsFiniteSet(Seqs)
  /\ Prompts \subseteq Seq(Token)
  /\ \A prompt \in Prompts : Len(prompt) \in 1..(MaxLen - 1)
  /\ MaxLen \in Nat
  /\ Incremental \in BOOLEAN /\ AllowImport \in BOOLEAN

VARIABLES
  pool,    \* the BlockManager, see BlockPool
  status,  \* seq -> "idle", "waiting" or "running"
  tokens,  \* seq -> token_ids
  table,   \* seq -> block_table
  cached,  \* seq -> num_cached_tokens
  sched,   \* seq -> num_scheduled_tokens
  kv,      \* block -> the token prefix whose keys and values it holds
  phase    \* "schedule" while schedule() runs, "postprocess" after run()

vars == <<pool, status, tokens, table, cached, sched, kv, phase>>

TypeOK ==
  /\ PoolTyped(pool, Token)
  /\ status \in [Seqs -> {"idle", "waiting", "running"}]
  /\ tokens \in [Seqs -> Seq(Token)]
  /\ table \in [Seqs -> Seq(Block)]
  /\ cached \in [Seqs -> Nat]
  /\ sched \in [Seqs -> Nat]
  /\ kv \in [Block -> Seq(Token)]
  /\ phase \in {"schedule", "postprocess"}

Init ==
  /\ pool = EmptyPool
  /\ status = [s \in Seqs |-> "idle"]
  /\ tokens = [s \in Seqs |-> << >>]
  /\ table = [s \in Seqs |-> << >>]
  /\ cached = [s \in Seqs |-> 0]
  /\ sched = [s \in Seqs |-> 0]
  /\ kv = [b \in Block |-> << >>]
  /\ phase = "schedule"

---------------------------------------------------------------------------
(* Between two steps: LLMEngine.add_request.                               *)
AddRequest(s, prompt) ==
  /\ phase = "schedule" /\ \A r \in Seqs : sched[r] = 0
  /\ status[s] = "idle"
  /\ status' = [status EXCEPT ![s] = "waiting"]
  /\ tokens' = [tokens EXCEPT ![s] = prompt]
  /\ UNCHANGED <<pool, table, cached, sched, kv, phase>>

(* One turn of the loop of Scheduler._schedule_prefill: n tokens of a      *)
(* waiting sequence, which gets its blocks first.  Without incremental     *)
(* allocation the first turn takes the blocks of the whole sequence.       *)
PrefillFirst(s, n) ==
  /\ phase = "schedule" /\ status[s] = "waiting" /\ sched[s] = 0
  /\ table[s] = << >>
  /\ LET hit == CachedBlocks(pool, tokens[s]) * BlockSize
         materialized == IF Incremental THEN hit + n ELSE Len(tokens[s])
         c == CanAllocate(pool, tokens[s], materialized)
         new == Allocated(pool, tokens[s], c, materialized)
     IN  /\ hit + n <= Len(tokens[s])
         /\ c # -1
         /\ pool' = new.pool
         /\ table' = [table EXCEPT ![s] = new.table]
         /\ cached' = [cached EXCEPT ![s] = c * BlockSize]
         /\ status' = [status EXCEPT ![s] = IF c * BlockSize + n = Len(tokens[s])
                                            THEN "running" ELSE @]
  /\ sched' = [sched EXCEPT ![s] = n]
  /\ UNCHANGED <<tokens, kv, phase>>

PrefillNext(s, n) ==
  /\ phase = "schedule" /\ status[s] = "waiting" /\ sched[s] = 0
  /\ table[s] # << >>
  /\ cached[s] + n <= Len(tokens[s])
  /\ LET new == Extended(pool, table[s], Missing(table[s], cached[s] + n))
     IN  IF Incremental
         THEN /\ CanMaterialize(pool, table[s], cached[s] + n)
              /\ pool' = new.pool
              /\ table' = [table EXCEPT ![s] = new.table]
         ELSE UNCHANGED <<pool, table>>
  /\ status' = [status EXCEPT ![s] = IF cached[s] + n = Len(tokens[s])
                                     THEN "running" ELSE @]
  /\ sched' = [sched EXCEPT ![s] = n]
  /\ UNCHANGED <<tokens, cached, kv, phase>>

(* One turn of the loop of Scheduler._schedule_decode.                     *)
Decode(s) ==
  /\ phase = "schedule" /\ status[s] = "running" /\ sched[s] = 0
  /\ CanAppend(pool, Len(tokens[s]))
  /\ LET new == Extended(pool, table[s], AppendNeeds(Len(tokens[s])))
     IN  pool' = new.pool /\ table' = [table EXCEPT ![s] = new.table]
  /\ sched' = [sched EXCEPT ![s] = 1]
  /\ UNCHANGED <<status, tokens, cached, kv, phase>>

(* Mutant: the computed tokens are not forgotten with the blocks.          *)
PreemptKeepsProgress(s) ==
  /\ phase = "schedule" /\ status[s] = "running" /\ sched[s] = 0
  /\ pool' = Deallocated(pool, table[s])
  /\ table' = [table EXCEPT ![s] = << >>]
  /\ status' = [status EXCEPT ![s] = "waiting"]
  /\ UNCHANGED <<tokens, cached, sched, kv, phase>>

(* Scheduler.preempt of a sequence that is not part of this step.          *)
Preempt(s) ==
  /\ phase = "schedule" /\ status[s] = "running" /\ sched[s] = 0
  /\ pool' = Deallocated(pool, table[s])
  /\ table' = [table EXCEPT ![s] = << >>]
  /\ cached' = [cached EXCEPT ![s] = 0]
  /\ status' = [status EXCEPT ![s] = "waiting"]
  /\ UNCHANGED <<tokens, sched, kv, phase>>

---------------------------------------------------------------------------
(* ModelRunner.run: the keys and values of every scheduled token are       *)
(* written.  Prefill writes positions cached+1 .. cached+n (prepare_prefill *)
(* builds that slot mapping); decode writes the position of the last token *)
(* into the last block of the table (prepare_decode).                      *)
DecodeStep(s) == status[s] = "running" /\ cached[s] + sched[s] < Len(tokens[s])

FirstWritten(s) ==
  IF sched[s] = 1 /\ DecodeStep(s) THEN Len(tokens[s]) ELSE cached[s] + 1
LastWritten(s) ==
  IF sched[s] = 1 /\ DecodeStep(s) THEN Len(tokens[s]) ELSE cached[s] + sched[s]

Writes(s, b) ==
  \E i \in BlocksFor(FirstWritten(s))..BlocksFor(LastWritten(s)) :
    i \in DOMAIN table[s] /\ table[s][i] = b

Written(s, b) ==
  LET i == CHOOSE j \in DOMAIN table[s] : table[s][j] = b
  IN  SubSeq(tokens[s], 1, IF i * BlockSize < LastWritten(s)
                           THEN i * BlockSize ELSE LastWritten(s))

Run ==
  /\ phase = "schedule"
  /\ \E s \in Seqs : sched[s] > 0
  /\ kv' = [b \in Block |->
              IF \E s \in Seqs : sched[s] > 0 /\ Writes(s, b)
              THEN LET w == CHOOSE s \in Seqs : sched[s] > 0 /\ Writes(s, b)
                   IN  Written(w, b)
              ELSE kv[b]]
  /\ phase' = "postprocess"
  /\ UNCHANGED <<pool, status, tokens, table, cached, sched>>

(* Scheduler.postprocess for one sequence of the step.  The sampled token  *)
(* t ends the sequence when it is eos or the last one allowed.             *)
Advance(s) ==
  /\ phase = "postprocess" /\ sched[s] > 0
  /\ sched' = [sched EXCEPT ![s] = 0]
  /\ phase' = IF \E r \in Seqs \ {s} : sched[r] > 0 THEN phase ELSE "schedule"
  /\ UNCHANGED kv

ChunkDone(s) ==
  /\ Advance(s)
  /\ status[s] = "waiting"
  /\ pool' = Hashed(pool, tokens[s], table[s], cached[s], sched[s])
  /\ cached' = [cached EXCEPT ![s] = @ + sched[s]]
  /\ UNCHANGED <<status, tokens, table>>

TokenDone(s, t) ==
  /\ Advance(s)
  /\ status[s] = "running" /\ Len(tokens[s]) + 1 < MaxLen
  /\ pool' = Hashed(pool, tokens[s], table[s], cached[s], sched[s])
  /\ cached' = [cached EXCEPT ![s] = @ + sched[s]]
  /\ tokens' = [tokens EXCEPT ![s] = Append(@, t)]
  /\ UNCHANGED <<status, table>>

Finish(s) ==
  /\ Advance(s)
  /\ status[s] = "running"
  /\ pool' = Deallocated(Hashed(pool, tokens[s], table[s], cached[s], sched[s]),
                         table[s])
  /\ status' = [status EXCEPT ![s] = "idle"]
  /\ tokens' = [tokens EXCEPT ![s] = << >>]
  /\ table' = [table EXCEPT ![s] = << >>]
  /\ cached' = [cached EXCEPT ![s] = 0]

---------------------------------------------------------------------------

(* LLMEngine.import_decode on a P/D decode worker: the runner only calls   *)
(* it when the free blocks cover the transferred tokens, all blocks are    *)
(* fresh, allocate() leaves num_cached_tokens at 0, and the payload fills  *)
(* the blocks (install_materialized_kv).                                   *)
ImportDecode(s, prompt, t) ==
  /\ AllowImport
  /\ phase = "schedule" /\ \A r \in Seqs : sched[r] = 0
  /\ status[s] = "idle"
  /\ Len(prompt) + 1 < MaxLen
  /\ Len(pool.free) >= BlocksFor(Len(prompt))
  /\ LET new == Allocated(pool, Append(prompt, t), 0, Len(prompt))
     IN  /\ pool' = new.pool
         /\ table' = [table EXCEPT ![s] = new.table]
         /\ kv' = [b \in Block |->
                     IF \E i \in DOMAIN new.table : new.table[i] = b
                     THEN LET i == CHOOSE j \in DOMAIN new.table : new.table[j] = b
                          IN  SubSeq(prompt, 1, IF i * BlockSize < Len(prompt)
                                                THEN i * BlockSize ELSE Len(prompt))
                     ELSE kv[b]]
  /\ status' = [status EXCEPT ![s] = "running"]
  /\ tokens' = [tokens EXCEPT ![s] = Append(prompt, t)]
  /\ UNCHANGED <<cached, sched, phase>>

Next ==
  \/ \E s \in Seqs :
       \/ \E prompt \in Prompts : AddRequest(s, prompt)
       \/ \E n \in 1..MaxLen : PrefillFirst(s, n) \/ PrefillNext(s, n)
       \/ Decode(s)
       \/ Preempt(s)
       \/ ChunkDone(s)
       \/ \E t \in Token : TokenDone(s, t)
       \/ Finish(s)
       \/ \E prompt \in Prompts, t \in Token : ImportDecode(s, prompt, t)
  \/ Run

Spec == Init /\ [][Next]_vars

---------------------------------------------------------------------------
(* Properties.                                                             *)

(* Every block counts exactly the sequences whose block table holds it, no *)
(* table holds a block twice, the used set is the set of counted blocks,   *)
(* and the free deque holds every other block once: nothing _allocate_block*)
(* or deallocate does leaks a block or frees one twice.                    *)
PoolConsistent == Accounts(pool, table, Seqs)

(* A prefix found in hash_to_block_id leads to a block that still carries  *)
(* that hash and really holds the keys and values of that prefix, however  *)
(* often the block was freed, evicted, shared or hashed again.             *)
IndexSound ==
  \A h \in DOMAIN pool.map : /\ pool.hash[pool.map[h]] = h
                             /\ kv[pool.map[h]] = h

(* The positions of s whose keys and values a forward pass may read.       *)
Readable(s) ==
  IF sched[s] > 0
  THEN IF phase = "schedule" THEN FirstWritten(s) - 1 ELSE LastWritten(s)
  ELSE IF status[s] = "running" THEN Len(tokens[s]) - 1 ELSE cached[s]

(* Attention never reads the keys and values of other tokens: every        *)
(* readable position of every sequence is covered by its block table and   *)
(* holds what that very prefix computes, whether the block was computed by *)
(* the sequence, reused from the cache, kept across a preemption or        *)
(* installed by a P/D transfer.                                            *)
KVSound ==
  IndexSound /\ \A s \in Seqs :
    /\ BlocksFor(Readable(s)) <= Len(table[s])
    /\ \A i \in 1..BlocksFor(Readable(s)) :
         LET upto == IF i * BlockSize < Readable(s)
                     THEN i * BlockSize ELSE Readable(s)
         IN  /\ Len(kv[table[s][i]]) \in upto..(i * BlockSize)
             /\ SubSeq(kv[table[s][i]], 1, upto) = SubSeq(tokens[s], 1, upto)

(* A forward pass writes only into blocks that the writing sequence holds  *)
(* alone and that no cached prefix names.                                  *)
WritesPrivate ==
  phase = "schedule" =>
    \A s \in Seqs : sched[s] > 0 =>
      \A i \in BlocksFor(FirstWritten(s))..BlocksFor(LastWritten(s)) :
        /\ i \in DOMAIN table[s]
        /\ pool.ref[table[s][i]] = 1
        /\ pool.hash[table[s][i]] = Root

(* can_allocate counts a reused block that is still in use as needing no   *)
(* free block and one that is not as needing one: when it says yes, the    *)
(* popleft calls of allocate() never meet an empty deque.                  *)
AdmittedAllocationFits ==
  \A s \in Seqs : status[s] = "waiting" /\ table[s] = << >> =>
    \A m \in 1..Len(tokens[s]) :
      LET c == CanAllocate(pool, tokens[s], m)
      IN  c # -1 =>
            BlocksFor(m) - c
              <= Len(ShareCached(pool, Cached(pool, tokens[s], c)).free)

(* The preview admission decides with and the allocation the scheduler     *)
(* does later agree: they match the same prefix, and free blocks that      *)
(* cover the previewed reservation make can_allocate succeed.              *)
PreviewHonoured ==
  \A s \in Seqs : status[s] = "waiting" /\ table[s] = << >> =>
    LET preview == PreviewPrefixCache(pool, tokens[s], 1)
    IN  /\ preview.matched = CachedBlocks(pool, tokens[s])
        /\ preview.incremental <= Len(pool.free)
             => CanAllocate(pool, tokens[s], Len(tokens[s])) # -1

(* A preview can be replayed: matched against the snapshot taken with it,  *)
(* the prompt finds the same blocks, as many of them in use, although      *)
(* blocks with the same contents may carry the same hash; and it leaves at *)
(* least one block to reserve, as the aggregators demand.                  *)
ReplayAgrees ==
  \A prompt \in Prompts :
    LET preview == PreviewPrefixCache(pool, prompt, 1)
        replayed == ReplayedMatch(CacheStateSnapshot(pool), prompt)
    IN  /\ [i \in DOMAIN replayed |-> replayed[i].block]
             = CachedTable(pool, prompt, preview.matched)
        /\ Cardinality({i \in DOMAIN replayed : replayed[i].used}) = preview.active
        /\ preview.matched < preview.full

(* How much of a sequence its block table covers: always the tokens that   *)
(* are computed or scheduled, and for a running sequence everything but a  *)
(* last token that is still to be computed.                                *)
Covered(s) ==
  /\ status[s] = "idle" =>
       table[s] = << >> /\ cached[s] = 0 /\ sched[s] = 0 /\ tokens[s] = << >>
  /\ status[s] # "idle" => Len(tokens[s]) > 0
  /\ cached[s] + sched[s] <= Len(tokens[s])
  /\ cached[s] + sched[s] <= Len(table[s]) * BlockSize
  /\ status[s] = "running" =>
       /\ Len(tokens[s]) - 1 <= Len(table[s]) * BlockSize
       /\ sched[s] > 0 => Len(tokens[s]) <= Len(table[s]) * BlockSize
       /\ sched[s] = 0 => cached[s] < Len(tokens[s])
  /\ status[s] = "waiting" /\ ~ Incremental /\ table[s] # << >> =>
       Len(tokens[s]) <= Len(table[s]) * BlockSize

(* The inductive invariant of the block accounts.                          *)
IInv ==
  /\ TypeOK
  /\ PoolConsistent
  /\ Indexed(pool, table, cached, Seqs)
  /\ \A s \in Seqs : Covered(s)
=============================================================================
